---- MODULE Spec2Model ----
(***************************************************************************)
(* Digest generation orchestrator of news-bot: DigestService over a        *)
(* transactional Digest Store, driven by the scheduler                     *)
(* (generate_user_digest), the HTTP endpoints (get_db sessions) and a      *)
(* caller that holds a session and calls the service directly.             *)
(***************************************************************************)
EXTENDS Integers, Sequences, FiniteSets, TLC

\* ------------------------------------------------------------------ bounds
\* number of digest ids (uuid4 values) that can be handed out in one run
MaxId == 2

\* ------------------------------------------------------- fixed environment
\* rows of the users table
Users == {"u1"}

\* a user_id that has no row in the users table
Ghost == "u0"

\* digest dates that triggers ask for
Dates == {"d1"}

\* one scheduler job, one HTTP request at a time, one direct service caller
Triggers == {"sched", "api", "direct"}

\* interest lists a user can subscribe to (rows of PREDEFINED_INTERESTS,
\* ordered by display_order)
InterestChoices ==
    { << >>,
      << [slug |-> "technology", newsapi_category |-> "technology"] >> }

\* urls of the articles the upstream returns for a category
UpstreamUrls(c) ==
    IF c = "technology" THEN << "url1", "url2" >> ELSE << "url2", "url3" >>

Categories == {"technology"}

\* DigestStatus
PENDING == "pending"
COMPLETED == "completed"
FAILED == "failed"
DigestStatus == {PENDING, COMPLETED, FAILED}

\* texts the Content Generator can produce (after sanitation)
GenOutputs == {"generated-A"}

NoInterestsMessage ==
    "No interests selected. Please add interests to receive personalized digests."
FailedContent == "Digest generation failed. Please try again later."
NoNewsContent == "No news articles were available for the selected interests."

\* --------------------------------------------------------------- exceptions
NoExc == [type |-> "None", message |-> ""]
NotFoundError(u) == [type |-> "NotFoundError", message |-> "User with id '" \o u \o "' not found"]
IntegrityError == [type |-> "IntegrityError", message |-> "UNIQUE constraint failed: uq_user_digest_date"]
OpenAIError == [type |-> "OpenAIError", message |-> "OpenAI: Failed to connect to OpenAI API"]
DecodeError == [type |-> "JSONDecodeError", message |-> "Expecting value: line 1 column 1 (char 0)"]

\* str(e)
Str(e) == e.message

\* ------------------------------------------------------------------ records
NoDigest ==
    [id |-> 0, user_id |-> "", digest_date |-> "", content |-> "",
     status |-> "", error_message |-> "", headlines_used |-> << >>,
     interests_included |-> << >>]

Digest(id, u, d, content, status, interests) ==
    [id |-> id, user_id |-> u, digest_date |-> d, content |-> content,
     status |-> status, error_message |-> "", headlines_used |-> << >>,
     interests_included |-> interests]

Key(r) == << r.user_id, r.digest_date >>

Slugs(interests) == [i \in 1..Len(interests) |-> interests[i].slug]

\* ------------------------------------------------ scheduler window: times
\* users rows the window check selects from
Accounts == {"a1", "a2"}

\* times of day are minutes since 00:00
MinutesPerDay == 1440

\* User.preferred_time default, time(8, 0)
DefaultPreferredTime == 480

\* preferred times users choose: 00:00, 00:04, 00:05, 08:00, 08:15, 12:00,
\* 23:50, 23:55
PreferredTimes == {0, 4, 5, 480, 495, 720, 1430, 1435}

\* times of day at which the interval job fires: 08:00, 23:45, 23:50
Instants == {480, 1425, 1430}

\* digest_check_interval_minutes (ge=1)
WindowLengths == {15, 1439, 1440}

NoWindow == [now |-> 0, minutes |-> 0]

\* digest_check_interval_minutes of the schedulers whose ticks are followed: the
\* default, and an interval that does not divide the day
TickIntervals == {15, 720, 1000}

\* the minute, counted from the first midnight, at which the scheduler's first tick fires
FirstTicks == {0, 7, 480}

\* the last minute, counted from the first midnight, at which a tick is followed
MaxMinute == 4320

\* ------------------------------------------------------ rate limiter: units
\* the clock is read in ticks of half a second
TicksPerSecond == 2

\* token counts are kept in units of 1/Scale token, so that the refill of one
\* tick at requests_per_minute / 60 tokens per second is a whole number
Scale == 60 * TicksPerSecond

\* the two limiters of RateLimitMiddleware; a RateLimiter built directly
\* takes the first slot
Limiters == {"default_limiter", "auth_limiter"}

\* rate limit keys: an IP address, an authenticated user
Keys == {"ip:10.0.0.1", "user:7"}

\* readings of time.time() between direct calls, in ticks: 0s, 0.5s, 1.5s,
\* 2s, 13s
ClockReadings == {0, 1, 3, 4, 26}

\* RateLimiter(requests_per_minute, burst) as constructed by the tests and by
\* the settings (both ge=1)
LimiterConfigs ==
    { [requests_per_minute |-> 60, burst |-> 1],
      [requests_per_minute |-> 60, burst |-> 2],
      [requests_per_minute |-> 5, burst |-> 3] }

\* settings.rate_limit_per_minute, settings.rate_limit_burst
DefaultConfig == [requests_per_minute |-> 60, burst |-> 2]

\* AUTH_RATE_LIMIT, burst=3
AuthConfig == [requests_per_minute |-> 5, burst |-> 3]

\* readings of time.time() between requests, in ticks: 0s, 1s, 3650s
MiddlewareReadings == {0, 2, 7300}

\* max_age_seconds arguments of cleanup_old_buckets
MaxAges == {1}

\* cleanup interval and default max age of the middleware, seconds
CleanupSeconds == 3600

EXEMPT_PATHS == {"/health", "/docs", "/openapi.json", "/redoc"}

AUTH_PATHS == {"/api/v1/auth/register", "/api/v1/auth/login"}

\* request paths
Paths == {"/health", "/api/v1/auth/login", "/api/v1/digests"}

\* requests in flight at the same time, all carrying SharedKey
Requests == {"r1", "r2", "r3"}

SharedKey == "ip:10.0.0.1"

\* readings of time.time() while the requests are served, in ticks: 0s, 0.5s,
\* 1s, 2s
RequestReadings == {0, 1, 2, 4}

NoBucket == [tokens |-> -1, last_refill |-> -1]

NoDenial == [at |-> -1, retry_after |-> 0]

NoCall ==
    [op |-> "none", limiter |-> "", key |-> "", at |-> 0, before |-> NoBucket,
     refilled |-> 0, allowed |-> FALSE, retry_after |-> 0, remaining |-> 0,
     after_denial |-> NoDenial, calls |-> 0, removed |-> 0]

NoHist == [denied |-> NoDenial, born |-> -1, calls |-> 0]

NoReq == [path |-> "", key |-> "", limiter |-> ""]

NoResp == [path |-> "", key |-> "", limiter |-> "", status |-> 0, retry_after |-> 0,
           remaining |-> 0]

\* generate_digest calls in their generation branch at the same time
NewsCalls == {"n1", "n2"}

\* newsapi categories of the interests below
NewsCategories == {"technology", "general"}

\* rows of the interests table: two of PREDEFINED_INTERESTS share the category general;
\* newsapi_category is nullable
Politics == [slug |-> "politics", newsapi_category |-> "general"]

ForeignAffairs == [slug |-> "foreign-affairs", newsapi_category |-> "general"]

Technology == [slug |-> "technology", newsapi_category |-> "technology"]

Local == [slug |-> "local", newsapi_category |-> ""]

\* interests of the users that ask for a digest, by display_order
NewsInterests ==
    { << Politics, Technology >>, << ForeignAffairs >>, << Politics, ForeignAffairs >>,
      << Local, Technology >> }

\* users rows the batch can find due
BatchUsers == {"b1", "b2"}

\* asyncio tasks that can run process_digest_generation
Tasks == {"t1", "t2"}

\* calendar days, as day numbers
FirstDay == 2

LastDay == 3

\* interval ticks modelled
MaxTicks == 1

\* results of get_users_due_for_digest
DueLists == { << >>, << "b1" >>, << "b1", "b2" >> }

ZeroStats == [total |-> 0, generated |-> 0, skipped_no_interests |-> 0, skipped_exists |-> 0,
              failed |-> 0]

NoTask == [pc |-> "none", started_on |-> 0, digest_date |-> 0, users |-> << >>, i |-> 0,
           stats |-> ZeroStats, log |-> << >>, caught |-> FALSE]

\* RateLimiter(requests_per_minute, burst) of the limiters that are compared: the
\* defaults of the settings, and a burst that takes longer than an hour to refill
PurgeConfigs ==
    { [requests_per_minute |-> 60, burst |-> 10],
      [requests_per_minute |-> 1, burst |-> 61] }

\* readings of time.time() while the two limiters are compared, in ticks: 0s, 3601s
PurgeReadings == {0, 7202}

\* callers of get_headlines_for_category in flight at the same time
CacheCallers == {"h1", "h2"}

CACHE_TTL_SECONDS == 3600

\* readings of datetime.now(timezone.utc), in seconds
CacheReadings == {0, 1, 3600, 3601}

\* "articles" of the upstream's answers; an article can lack its title
UpstreamPayloads ==
    { << [title |-> "T1", url |-> "url1"] >>,
      << [title |-> "", url |-> "url2"], [title |-> "T3", url |-> "url3"] >> }

\* no entry under the cache key
NoEntry == [articles |-> << >>, cached_at |-> -1]

NoCacheCall ==
    [pc |-> "idle", category |-> "", use_cache |-> FALSE, upstream |-> 0, result |-> << >>]

VARIABLES
    subscribed, \* subscribed[u]: committed user_interests of u, joined with interests
    store,      \* committed rows of the digests table
    adds,       \* adds[t]: rows flushed by t's session, not yet committed
    dels,       \* dels[t]: ids of committed rows t's session deleted, not yet committed
    pc,         \* position of each trigger
    arg,        \* arguments of the call in progress
    existing,   \* result of the idempotency check
    ints,       \* interests the call in progress read
    cur,        \* id of the digest this call created
    acc,        \* all_articles of get_headlines_for_interests
    skipped,    \* categories whose NewsAPIError was caught in this call
    nFetch,     \* Fetcher calls (get_previous_day_headlines) made by the call in progress
    nGen,       \* Generator calls made by the call in progress
    nPost,      \* requests the call in progress sent to the Generator's upstream
    exc,        \* exception that left the call
    ret,        \* digest the call returned
    prior,      \* history: the COMPLETED digest the preceding call returned, if this session sees it
    lastRet,    \* history: per (user, date), id of the digest the latest generate_digest call returned
    nextId,     \* next unused digest id
    profile,    \* profile[a]: preferred_time and is_active of the users row a
    wpc,        \* position of the scheduler's window check
    window,     \* current_time_utc (time of day) and window_minutes of the latest check
    due,        \* users rows the latest get_users_due_for_digest returned
    clock,      \* time.time(), in ticks
    conf,       \* conf[l]: requests_per_minute and burst of limiter l
    buckets,    \* buckets[l][key]: the RateLimitBucket of key in limiter l, if any
    last,       \* history: the latest direct call on a limiter and its result
    hist,       \* history per bucket: the pending denial, the bucket's creation time, its calls
    last_cleanup, \* RateLimitMiddleware._last_cleanup
    req,        \* the request waiting in call_next
    resp,       \* the latest response of the middleware
    rpc,        \* rpc[r]: position of concurrent request r in dispatch
    rlim,       \* rlim[r]: the limiter dispatch selected for r
    granted,    \* history: granted[l]: requests limiter l has admitted for the shared key
    sched,      \* state of the AsyncIOScheduler
    ticks,      \* interval ticks the scheduler has fired
    today,      \* date.today()
    has_interests, \* has_interests[u]: whether user_interests holds a row of batch user u
    completed,  \* committed COMPLETED digests, as (user, digest_date) pairs
    batch,      \* batch[t]: the frame of process_digest_generation in asyncio task t
    npc,        \* npc[c]: position of generation call c in the generation branch
    nints,      \* nints[c]: the interests generate_digest read for call c
    nidx,       \* nidx[c]: index of the interest the loop of get_headlines_for_interests is at
    nall,       \* nall[c]: all_articles of call c, as references to article dicts
    nseen,      \* nseen[c]: seen_urls of call c
    nskipped,   \* nskipped[c]: categories whose NewsAPIError call c caught
    nlog,       \* history: nlog[c]: the events of call c, in order
    cache,      \* cache[category]: the call whose article list _headlines_cache holds, if any
    slug_of,    \* slug_of[c][category][k]: interest_slug of the k-th article dict call c made
    spc,        \* position of the caller of sanitize_markdown
    raw,        \* the text handed to sanitize_markdown, a sequence of characters
    clean,      \* sanitize_markdown(raw)
    again,      \* sanitize_markdown(clean)
    utcnow,     \* datetime.now(timezone.utc), in seconds
    hcache,     \* hcache[category]: the entry of _headlines_cache for the category, if any
    hcall,      \* hcall[c]: the get_headlines_for_category call of caller c
    verdict,    \* verdict[l]: what limiter l answered to the latest request put to both limiters
    interval,   \* settings.digest_check_interval_minutes of the scheduler whose ticks are followed
    began,      \* minutes from the first midnight to the first tick, -1 before it
    fired,      \* minutes from the first midnight to the latest tick of the interval trigger, -1 before the first
    picked      \* history: picked[a]: the ticks of the last 24 hours whose window check returned a, by time

digestVars == << subscribed, store, adds, dels, pc, arg, existing, ints, cur, acc, skipped,
                 nFetch, nGen, nPost, exc, ret, prior, lastRet, nextId >>

windowVars == << profile, wpc, window, due >>

limiterVars == << clock, conf, buckets, last, hist, last_cleanup, req, resp >>

requestVars == << rpc, rlim, granted >>

batchVars == << sched, ticks, today, has_interests, completed, batch >>

newsVars == << npc, nints, nidx, nall, nseen, nskipped, nlog, cache, slug_of >>

sanitizerVars == << spc, raw, clean, again >>

cacheVars == << utcnow, hcache, hcall >>

purgeVars == << verdict >>

tickVars == << interval, began, fired, picked >>

vars == << digestVars, windowVars, limiterVars, requestVars, batchVars, newsVars,
           sanitizerVars, cacheVars, purgeVars, tickVars >>

\* what the digest orchestrator leaves alone
outsideDigest ==
    << windowVars, limiterVars, requestVars, batchVars, newsVars, sanitizerVars, cacheVars, purgeVars, tickVars >>

\* what the window check leaves alone
outsideWindow ==
    << digestVars, limiterVars, requestVars, batchVars, newsVars, sanitizerVars, cacheVars, purgeVars, tickVars >>

\* what the rate limiter leaves alone
outsideLimiter ==
    << digestVars, windowVars, requestVars, batchVars, newsVars, sanitizerVars, cacheVars, purgeVars, tickVars >>

\* what the concurrent requests leave alone, the limiters apart
outsideRequests ==
    << digestVars, windowVars, batchVars, newsVars, sanitizerVars, cacheVars, purgeVars, tickVars >>

\* what the digest batch leaves alone
outsideBatch ==
    << digestVars, windowVars, limiterVars, requestVars, newsVars, sanitizerVars, cacheVars, purgeVars, tickVars >>

\* what the markdown sanitizer leaves alone
outsideSanitizer == << digestVars, windowVars, limiterVars, requestVars, batchVars, newsVars, cacheVars, purgeVars, tickVars >>

\* what the news service leaves alone
outsideNews ==
    << digestVars, windowVars, limiterVars, requestVars, batchVars, sanitizerVars, cacheVars, purgeVars, tickVars >>

\* what the headline cache leaves alone
outsideCache ==
    << digestVars, windowVars, limiterVars, requestVars, batchVars, newsVars, sanitizerVars, purgeVars, tickVars >>

\* what the comparison of a purged and an unpurged limiter leaves alone, the limiters apart
outsidePurge ==
    << digestVars, windowVars, requestVars, batchVars, newsVars, sanitizerVars, cacheVars, tickVars >>

\* what the ticks of the interval trigger leave alone, the users and the window check apart
outsideTicks ==
    << digestVars, limiterVars, requestVars, batchVars, newsVars, sanitizerVars, cacheVars, purgeVars >>

NoArg == [op |-> "none", user |-> "", date |-> "", force |-> FALSE]

\* ----------------------------------------------------------- Digest Store
\* rows a session sees: committed rows it has not deleted, plus its own
View(t) == {r \in store : r.id \notin dels[t]} \cup adds[t]

\* uq_user_digest_date: another transaction holds an uncommitted insert or
\* delete on the key, so an insert on it waits
KeyLocked(t, k) ==
    \E t2 \in Triggers \ {t} :
        \/ \E r \in adds[t2] : Key(r) = k
        \/ \E r \in store : r.id \in dels[t2] /\ Key(r) = k

RowLocked(t, id) == \E t2 \in Triggers \ {t} : id \in dels[t2]

\* the table without its uniqueness constraint
UniqueViolation_off(t, k) == FALSE

\* uq_user_digest_date: the insert is rejected
UniqueViolation(t, k) == \E r \in View(t) : Key(r) = k

get_digest_by_date(t, u, d) ==
    IF \E r \in View(t) : Key(r) = << u, d >>
    THEN CHOOSE r \in View(t) : Key(r) = << u, d >>
    ELSE NoDigest

get_digest_by_id(t, id, u) ==
    IF \E r \in View(t) : r.id = id /\ r.user_id = u
    THEN CHOOSE r \in View(t) : r.id = id /\ r.user_id = u
    ELSE NoDigest

check_digest_exists(u, d) ==
    \E r \in store : Key(r) = << u, d >> /\ r.status = COMPLETED

\* interest_service.get_user_interests
get_user_interests(u) == IF u \in Users THEN subscribed[u] ELSE << >>

\* no digest stored, no call in progress
DigestIdle ==
    /\ store = {}
    /\ adds = [t \in Triggers |-> {}]
    /\ dels = [t \in Triggers |-> {}]
    /\ pc = [t \in Triggers |-> "idle"]
    /\ arg = [t \in Triggers |-> NoArg]
    /\ existing = [t \in Triggers |-> NoDigest]
    /\ ints = [t \in Triggers |-> << >>]
    /\ cur = [t \in Triggers |-> 0]
    /\ acc = [t \in Triggers |-> << >>]
    /\ skipped = [t \in Triggers |-> {}]
    /\ nFetch = [t \in Triggers |-> 0]
    /\ nGen = [t \in Triggers |-> 0]
    /\ nPost = [t \in Triggers |-> 0]
    /\ exc = [t \in Triggers |-> NoExc]
    /\ ret = [t \in Triggers |-> NoDigest]
    /\ prior = [t \in Triggers |-> NoDigest]
    /\ lastRet = [k \in Users \X Dates |-> 0]
    /\ nextId = 1

\* users registered with the default preferred_time, no window check running
WindowIdle ==
    /\ profile = [a \in Accounts |-> [preferred_time |-> DefaultPreferredTime,
                                      is_active |-> TRUE]]
    /\ wpc = "idle"
    /\ window = NoWindow
    /\ due = {}

\* RateLimitMiddleware.__init__: two limiters without buckets
LimiterIdle ==
    /\ clock = 0
    /\ buckets = [l \in Limiters |-> [k \in Keys |-> NoBucket]]
    /\ last = NoCall
    /\ hist = [l \in Limiters |-> [k \in Keys |-> NoHist]]
    /\ last_cleanup = 0
    /\ req = NoReq
    /\ resp = NoResp

\* no request in flight
RequestsIdle ==
    /\ rpc = [r \in Requests |-> "new"]
    /\ rlim = [r \in Requests |-> ""]
    /\ granted = [l \in Limiters |-> 0]

\* scheduler not started, no batch task
BatchIdle ==
    /\ sched = "stopped"
    /\ ticks = 0
    /\ today = FirstDay
    /\ has_interests = [u \in BatchUsers |-> TRUE]
    /\ completed = {}
    /\ batch = [t \in Tasks |-> NoTask]

\* no generation in progress, nothing cached
NewsIdle ==
    /\ npc = [c \in NewsCalls |-> "idle"]
    /\ nints = [c \in NewsCalls |-> << >>]
    /\ nidx = [c \in NewsCalls |-> 0]
    /\ nall = [c \in NewsCalls |-> << >>]
    /\ nseen = [c \in NewsCalls |-> {}]
    /\ nskipped = [c \in NewsCalls |-> {}]
    /\ nlog = [c \in NewsCalls |-> << >>]
    /\ cache = [category \in NewsCategories |-> ""]
    /\ slug_of = [c \in NewsCalls |->
                     [category \in NewsCategories |->
                         [k \in 1..Len(UpstreamUrls(category)) |-> ""]]]

\* no text to sanitize
SanitizerIdle ==
    /\ spc = "idle"
    /\ raw = << >>
    /\ clean = << >>
    /\ again = << >>

\* the limiters as the middleware configures them
MiddlewareConf ==
    conf = [l \in Limiters |-> IF l = "auth_limiter" THEN AuthConfig ELSE DefaultConfig]

CacheIdle ==
    /\ utcnow = 0
    /\ hcache = [category \in NewsCategories |-> NoEntry]
    /\ hcall = [c \in CacheCallers |-> NoCacheCall]

PurgeIdle ==
    /\ verdict = [l \in Limiters |-> "none"]

TicksIdle ==
    /\ interval = 0
    /\ began = -1
    /\ fired = -1
    /\ picked = [a \in Accounts |-> {}]

Init ==
    /\ subscribed \in [Users -> InterestChoices]
    /\ DigestIdle
    /\ WindowIdle
    /\ LimiterIdle
    /\ MiddlewareConf
    /\ RequestsIdle
    /\ BatchIdle
    /\ NewsIdle
    /\ SanitizerIdle
    /\ TicksIdle
    /\ PurgeIdle
    /\ CacheIdle


\* ------------------------------------------------- session: flush / commit
\* self.db.add(digest); await self.db.flush()
FlushInsert(t, rec) == adds' = [adds EXCEPT ![t] = @ \cup {rec}]

\* flush of an update of the row this call inserted
FlushUpdate(t, old, new) == adds' = [adds EXCEPT ![t] = (@ \ {old}) \cup {new}]

\* a flush the database rejects aborts the session's transaction
FlushRejected(t) ==
    /\ adds' = [adds EXCEPT ![t] = {}]
    /\ dels' = [dels EXCEPT ![t] = {}]

\* await db.commit()
Commit(t) ==
    /\ store' = View(t)
    /\ adds' = [adds EXCEPT ![t] = {}]
    /\ dels' = [dels EXCEPT ![t] = {}]

\* a rollback that lets the session's deletes through
Rollback_deleting(t) ==
    /\ store' = {r \in store : r.id \notin dels[t]}
    /\ adds' = [adds EXCEPT ![t] = {}]
    /\ dels' = [dels EXCEPT ![t] = {}]

\* await db.rollback()
Rollback(t) ==
    /\ adds' = [adds EXCEPT ![t] = {}]
    /\ dels' = [dels EXCEPT ![t] = {}]
    /\ UNCHANGED store

\* ------------------------------------------------------------ DigestService
\* delete_digest that finds the row and leaves it
delete_digest_noop(t, id, u) == UNCHANGED << adds, dels >>

\* delete_digest: the row is looked up by id and owner, then deleted
delete_digest(t, id, u) ==
    LET dg == get_digest_by_id(t, id, u) IN
    IF dg = NoDigest
    THEN UNCHANGED << adds, dels >>
    ELSE /\ adds' = [adds EXCEPT ![t] = @ \ {dg}]
         /\ dels' = [dels EXCEPT ![t] =
                        IF \E r \in store : r.id = id THEN @ \cup {id} ELSE @]

\* the digest the preceding call on this key returned COMPLETED, when the
\* session of the new call sees it
PriorFor(t, k) ==
    IF /\ k \in DOMAIN lastRet
       /\ \E r \in View(t) : r.id = lastRet[k] /\ r.status = COMPLETED
    THEN CHOOSE r \in View(t) : r.id = lastRet[k] /\ r.status = COMPLETED
    ELSE NoDigest

\* the idempotency check with the early return lost
ReturnsExisting_never(ex, f) == FALSE

\* the idempotency check returns the existing digest
ReturnsExisting(ex, f) == ex # NoDigest /\ ~f /\ ex.status = COMPLETED

\* generate_digest, entry and idempotency check
generate_digest_check(t, u, d, f) ==
    LET ex == get_digest_by_date(t, u, d)
        k == << u, d >>
    IN
    /\ arg' = [arg EXCEPT ![t] = [op |-> "generate", user |-> u, date |-> d, force |-> f]]
    /\ existing' = [existing EXCEPT ![t] = ex]
    /\ prior' = [prior EXCEPT ![t] = PriorFor(t, k)]
    /\ IF ReturnsExisting(ex, f)
       THEN /\ pc' = [pc EXCEPT ![t] = "ret"]
            /\ ret' = [ret EXCEPT ![t] = ex]
            /\ lastRet' = [lastRet EXCEPT ![k] = ex.id]
       ELSE /\ pc' = [pc EXCEPT ![t] = IF ex # NoDigest /\ f THEN "delete" ELSE "lookup"]
            /\ UNCHANGED << ret, lastRet >>
    /\ UNCHANGED << subscribed, store, adds, dels, ints, cur, acc, skipped,
                    nFetch, nGen, nPost, exc, nextId >>

\* generate_digest, force=True: await self.delete_digest(existing.id, user_id)
ForceDelete(t) ==
    /\ pc[t] = "delete"
    /\ ~RowLocked(t, existing[t].id)
    /\ delete_digest(t, existing[t].id, arg[t].user)
    /\ pc' = [pc EXCEPT ![t] = "lookup"]
    /\ UNCHANGED << subscribed, store, arg, existing, ints, cur, acc, skipped, nFetch, nGen, nPost,
                    exc, ret, prior, lastRet, nextId >>
    /\ UNCHANGED outsideDigest

\* generate_digest: the user row is missing
UserNotFound(t) ==
    /\ pc[t] = "lookup"
    /\ arg[t].user \notin Users
    /\ exc' = [exc EXCEPT ![t] = NotFoundError(arg[t].user)]
    /\ pc' = [pc EXCEPT ![t] = "raised"]
    /\ UNCHANGED << subscribed, store, adds, dels, arg, existing, ints, cur, acc, skipped,
                    nFetch, nGen, nPost, ret, prior, lastRet, nextId >>
    /\ UNCHANGED outsideDigest

\* content of _create_empty_digest
EmptyDigestContent(d, message) ==
    "# Daily News Digest - " \o d \o " **Executive Summary:** " \o message
        \o " ## Key Takeaways - " \o message

\* _create_empty_digest
create_empty_digest(id, u, d, message) ==
    Digest(id, u, d, EmptyDigestContent(d, message), COMPLETED, << >>)

\* generate_digest, no-interests branch
CreateEmptyDigest(t) ==
    LET u == arg[t].user
        d == arg[t].date
        rec == create_empty_digest(nextId, u, d, NoInterestsMessage)
    IN
    /\ pc[t] = "lookup"
    /\ u \in Users
    /\ get_user_interests(u) = << >>
    /\ ~KeyLocked(t, << u, d >>)
    /\ IF UniqueViolation(t, << u, d >>)
       THEN /\ FlushRejected(t)
            /\ exc' = [exc EXCEPT ![t] = IntegrityError]
            /\ pc' = [pc EXCEPT ![t] = "raised"]
            /\ UNCHANGED << ret, lastRet, nextId >>
       ELSE /\ nextId <= MaxId
            /\ FlushInsert(t, rec)
            /\ nextId' = nextId + 1
            /\ ret' = [ret EXCEPT ![t] = rec]
            /\ lastRet' = [lastRet EXCEPT ![<< u, d >>] = rec.id]
            /\ pc' = [pc EXCEPT ![t] = "ret"]
            /\ UNCHANGED << dels, exc >>
    /\ UNCHANGED << subscribed, store, arg, existing, ints, cur, acc, skipped, nFetch, nGen, nPost,
                    prior >>
    /\ UNCHANGED outsideDigest

\* the PENDING row of the generation branch
PendingDigest(id, u, d, interests) ==
    Digest(id, u, d, "", PENDING, Slugs(interests))

\* generate_digest, generation branch: insert the PENDING record
InsertPending(t) ==
    LET u == arg[t].user
        d == arg[t].date
    IN
    /\ pc[t] = "lookup"
    /\ u \in Users
    /\ get_user_interests(u) # << >>
    /\ ints' = [ints EXCEPT ![t] = get_user_interests(u)]
    /\ ~KeyLocked(t, << u, d >>)
    /\ IF UniqueViolation(t, << u, d >>)
       THEN /\ FlushRejected(t)
            /\ exc' = [exc EXCEPT ![t] = IntegrityError]
            /\ pc' = [pc EXCEPT ![t] = "raised"]
            /\ UNCHANGED << cur, nextId >>
       ELSE /\ nextId <= MaxId
            /\ FlushInsert(t, PendingDigest(nextId, u, d, get_user_interests(u)))
            /\ nextId' = nextId + 1
            /\ cur' = [cur EXCEPT ![t] = nextId]
            /\ pc' = [pc EXCEPT ![t] = "fetch"]
            /\ UNCHANGED << dels, exc >>
    /\ UNCHANGED << subscribed, store, arg, existing, acc, skipped, nFetch, nGen, nPost,
                    ret, prior, lastRet >>
    /\ UNCHANGED outsideDigest


\* ---------------------------------------------------------------- NewsService
RECURSIVE Aggregate(_, _, _, _)
\* get_headlines_for_interests, inner loop: tag with the slug, keep the first
\* occurrence of every url
Aggregate(all_articles, slug, category, urls) ==
    IF urls = << >>
    THEN all_articles
    ELSE LET url == Head(urls)
             seen == \E j \in 1..Len(all_articles) : all_articles[j].url = url
         IN Aggregate(IF seen THEN all_articles
                      ELSE Append(all_articles,
                                  [url |-> url, category |-> category,
                                   interest_slug |-> slug]),
                      slug, category, Tail(urls))

RECURSIVE get_headlines_despite_errors(_, _, _)
\* the loop without the except branch's continue: a failing category still
\* contributes articles
get_headlines_despite_errors(interests, failing, all_articles) ==
    IF interests = << >>
    THEN all_articles
    ELSE get_headlines_despite_errors(
             Tail(interests), failing,
             Aggregate(all_articles, Head(interests).slug,
                       Head(interests).newsapi_category,
                       UpstreamUrls(Head(interests).newsapi_category)))

RECURSIVE get_headlines_for_interests(_, _, _)
\* get_headlines_for_interests: the categories in failing raise NewsAPIError,
\* which is caught (continue); the others contribute their articles, served
\* from the upstream or from the headline cache
get_headlines_for_interests(interests, failing, all_articles) ==
    IF interests = << >>
    THEN all_articles
    ELSE LET category == Head(interests).newsapi_category
             slug == Head(interests).slug
         IN get_headlines_for_interests(
                Tail(interests), failing,
                IF category = "" \/ category \in failing
                THEN all_articles
                ELSE Aggregate(all_articles, slug, category, UpstreamUrls(category)))

\* categories of a user's interests
CategoriesOf(interests) ==
    {interests[i].newsapi_category : i \in 1..Len(interests)} \ {""}

\* the digest row this call inserted
CurDigest(t) == CHOOSE r \in adds[t] : r.id = cur[t]

\* the except branch without the error message
FailDigest_nomsg(r, e) ==
    [r EXCEPT !.status = FAILED, !.content = FailedContent]

\* generate_digest, except branch: FAILED, error_message, generic content
FailDigest(r, e) ==
    [r EXCEPT !.status = FAILED, !.error_message = Str(e), !.content = FailedContent]

CompleteDigest_pending(r, content, headlines) ==
    [r EXCEPT !.content = content, !.headlines_used = headlines]

\* generate_digest, success: content, headlines_used, COMPLETED
CompleteDigest(r, content, headlines) ==
    [r EXCEPT !.content = content, !.headlines_used = headlines, !.status = COMPLETED]

\* news_service.get_previous_day_headlines returns: every Fetcher failure that
\* is a NewsAPIError (non-2xx, connection error, timeout, error payload) was
\* caught per category
FetchHeadlines(t, failing) ==
    /\ pc[t] = "fetch"
    /\ failing \subseteq CategoriesOf(ints[t])
    /\ nFetch' = [nFetch EXCEPT ![t] = @ + 1]
    /\ skipped' = [skipped EXCEPT ![t] = failing]
    /\ acc' = [acc EXCEPT ![t] =
                  get_headlines_for_interests(ints[t], failing, << >>)]
    /\ pc' = [pc EXCEPT ![t] = "generate"]
    /\ UNCHANGED << subscribed, store, adds, dels, arg, existing, ints, cur, nGen, nPost, exc, ret,
                    prior, lastRet, nextId >>
    /\ UNCHANGED outsideDigest

\* the upstream body is not JSON: response.json() raises an exception that is
\* no NewsAPIError; it leaves the Fetcher and reaches generate_digest's except
FetchCrash(t) ==
    /\ pc[t] = "fetch"
    /\ CategoriesOf(ints[t]) # {}
    /\ nFetch' = [nFetch EXCEPT ![t] = @ + 1]
    /\ FlushUpdate(t, CurDigest(t), FailDigest(CurDigest(t), DecodeError))
    /\ exc' = [exc EXCEPT ![t] = DecodeError]
    /\ pc' = [pc EXCEPT ![t] = "raised"]
    /\ UNCHANGED << subscribed, store, dels, arg, existing, ints, cur, acc, skipped, nGen,
                    nPost, ret,
                    prior, lastRet, nextId >>
    /\ UNCHANGED outsideDigest

\* -------------------------------------------------------------- OpenAIService
\* a request to the upstream whatever the headlines
posts_always(headlines) == 1

\* openai_service.generate_digest: "if not headlines" returns the placeholder before
\* self.client.post; otherwise one request is sent
posts(headlines) == IF headlines = << >> THEN 0 ELSE 1

\* openai_service.generate_digest returns; the digest is completed
GenerateOk(t, out) ==
    LET content == IF acc[t] = << >> THEN NoNewsContent ELSE out
        new == CompleteDigest(CurDigest(t), content, acc[t])
    IN
    /\ pc[t] = "generate"
    /\ nGen' = [nGen EXCEPT ![t] = @ + 1]
    /\ nPost' = [nPost EXCEPT ![t] = @ + posts(acc[t])]
    /\ FlushUpdate(t, CurDigest(t), new)
    /\ ret' = [ret EXCEPT ![t] = new]
    /\ lastRet' = [lastRet EXCEPT ![Key(new)] = new.id]
    /\ pc' = [pc EXCEPT ![t] = "ret"]
    /\ UNCHANGED << subscribed, store, dels, arg, existing, ints, cur, acc, skipped, nFetch,
                    exc, prior, nextId >>
    /\ UNCHANGED outsideDigest

\* openai_service.generate_digest raises OpenAIError (non-2xx, timeout,
\* malformed response); only possible when there are headlines to send
GenerateFail(t) ==
    /\ pc[t] = "generate"
    /\ acc[t] # << >>
    /\ nGen' = [nGen EXCEPT ![t] = @ + 1]
    /\ nPost' = [nPost EXCEPT ![t] = @ + posts(acc[t])]
    /\ FlushUpdate(t, CurDigest(t), FailDigest(CurDigest(t), OpenAIError))
    /\ exc' = [exc EXCEPT ![t] = OpenAIError]
    /\ pc' = [pc EXCEPT ![t] = "raised"]
    /\ UNCHANGED << subscribed, store, dels, arg, existing, ints, cur, acc, skipped, nFetch,
                    ret, prior, lastRet, nextId >>
    /\ UNCHANGED outsideDigest


\* -------------------------------------------------------------------- callers
SchedTriggers == {"sched"}
ApiTriggers == {"api"}
DirectTriggers == {"direct"}

\* process_digest_generation, one due user: skipped without interests or when
\* a COMPLETED digest exists, otherwise generate_user_digest is called
SchedPick(t, u, d) ==
    /\ t \in SchedTriggers
    /\ pc[t] = "idle"
    /\ get_user_interests(u) # << >>
    /\ ~check_digest_exists(u, d)
    /\ pc' = [pc EXCEPT ![t] = "picked"]
    /\ arg' = [arg EXCEPT ![t] = [op |-> "generate", user |-> u, date |-> d, force |-> FALSE]]
    /\ UNCHANGED << subscribed, store, adds, dels, existing, ints, cur, acc, skipped, nFetch,
                    nGen, nPost, exc, ret, prior, lastRet, nextId >>
    /\ UNCHANGED outsideDigest

\* generate_user_digest: generate_digest(user_id, digest_date, force=False)
SchedGenerate(t) ==
    /\ t \in SchedTriggers
    /\ pc[t] = "picked"
    /\ generate_digest_check(t, arg[t].user, arg[t].date, FALSE)
    /\ UNCHANGED outsideDigest

\* POST /digests/generate
ApiGenerate(t, u, d) ==
    /\ t \in ApiTriggers
    /\ pc[t] = "idle"
    /\ generate_digest_check(t, u, d, FALSE)
    /\ UNCHANGED outsideDigest

\* POST /digests/regenerate/{digest_date}
ApiRegenerate(t, u, d) ==
    /\ t \in ApiTriggers
    /\ pc[t] = "idle"
    /\ generate_digest_check(t, u, d, TRUE)
    /\ UNCHANGED outsideDigest

\* a caller holding a session calls generate_digest
DirectGenerate(t, u, d, f) ==
    /\ t \in DirectTriggers
    /\ pc[t] = "idle"
    /\ generate_digest_check(t, u, d, f)
    /\ UNCHANGED outsideDigest

\* DELETE /digests/{digest_id}, or a direct call of delete_digest: a missing
\* digest is NotFoundError in the router, False for the direct caller
DeleteCall(t, u, id) ==
    /\ t \in ApiTriggers \cup DirectTriggers
    /\ pc[t] = "idle"
    /\ ~RowLocked(t, id)
    /\ delete_digest(t, id, u)
    /\ arg' = [arg EXCEPT ![t] = [op |-> "delete", user |-> u, date |-> "", force |-> FALSE]]
    /\ IF get_digest_by_id(t, id, u) = NoDigest /\ t \in ApiTriggers
       THEN /\ exc' = [exc EXCEPT ![t] = [type |-> "NotFoundError", message |-> "Digest not found"]]
            /\ pc' = [pc EXCEPT ![t] = "raised"]
       ELSE /\ pc' = [pc EXCEPT ![t] = "ret"]
            /\ UNCHANGED exc
    /\ UNCHANGED << subscribed, store, existing, ints, cur, acc, skipped, nFetch, nGen, nPost, ret,
                    prior, lastRet, nextId >>
    /\ UNCHANGED outsideDigest

\* PUT /users/me/interests (update_user_interests), committed
UpdateInterests(u, new) ==
    /\ new # subscribed[u]
    /\ subscribed' = [subscribed EXCEPT ![u] = new]
    /\ UNCHANGED << store, adds, dels, pc, arg, existing, ints, cur, acc, skipped,
                    nFetch, nGen, nPost, exc, ret, prior, lastRet, nextId >>
    /\ UNCHANGED outsideDigest

\* the request, job or call is over: its local variables are gone
CallOver(t) ==
    /\ pc' = [pc EXCEPT ![t] = "idle"]
    /\ arg' = [arg EXCEPT ![t] = NoArg]
    /\ existing' = [existing EXCEPT ![t] = NoDigest]
    /\ ints' = [ints EXCEPT ![t] = << >>]
    /\ cur' = [cur EXCEPT ![t] = 0]
    /\ acc' = [acc EXCEPT ![t] = << >>]
    /\ skipped' = [skipped EXCEPT ![t] = {}]
    /\ nFetch' = [nFetch EXCEPT ![t] = 0]
    /\ nGen' = [nGen EXCEPT ![t] = 0]
    /\ nPost' = [nPost EXCEPT ![t] = 0]
    /\ exc' = [exc EXCEPT ![t] = NoExc]
    /\ ret' = [ret EXCEPT ![t] = NoDigest]
    /\ prior' = [prior EXCEPT ![t] = NoDigest]

\* generate_user_digest and get_db: the call returned, the session commits
CallerCommit(t) ==
    /\ t \in SchedTriggers \cup ApiTriggers
    /\ pc[t] = "ret"
    /\ Commit(t)
    /\ CallOver(t)
    /\ UNCHANGED << subscribed, lastRet, nextId >>
    /\ UNCHANGED outsideDigest

\* generate_user_digest and get_db: the call raised, the session rolls back
CallerRollback(t) ==
    /\ t \in SchedTriggers \cup ApiTriggers
    /\ pc[t] = "raised"
    /\ Rollback(t)
    /\ CallOver(t)
    /\ UNCHANGED << subscribed, lastRet, nextId >>
    /\ UNCHANGED outsideDigest

\* the direct caller gets the result or catches the exception and keeps its
\* session (a rejected flush has already aborted the transaction)
DirectReturn(t) ==
    /\ t \in DirectTriggers
    /\ pc[t] \in {"ret", "raised"}
    /\ CallOver(t)
    /\ UNCHANGED << subscribed, store, adds, dels, lastRet, nextId >>
    /\ UNCHANGED outsideDigest

\* the direct caller commits its session between calls
DirectCommit(t) ==
    /\ t \in DirectTriggers
    /\ pc[t] = "idle"
    /\ adds[t] # {} \/ dels[t] # {}
    /\ Commit(t)
    /\ UNCHANGED << subscribed, pc, arg, existing, ints, cur, acc, skipped, nFetch, nGen, nPost,
                    exc, ret, prior, lastRet, nextId >>
    /\ UNCHANGED outsideDigest

Next ==
    \/ \E t \in Triggers, u \in Users, d \in Dates : SchedPick(t, u, d)
    \/ \E t \in Triggers : SchedGenerate(t)
    \/ \E t \in Triggers, u \in Users, d \in Dates : ApiGenerate(t, u, d)
    \/ \E t \in Triggers, u \in Users, d \in Dates : ApiRegenerate(t, u, d)
    \/ \E t \in Triggers, u \in Users \cup {Ghost}, d \in Dates, f \in BOOLEAN :
           DirectGenerate(t, u, d, f)
    \/ \E t \in Triggers, u \in Users, id \in 1..(nextId - 1) : DeleteCall(t, u, id)
    \/ \E t \in Triggers : ForceDelete(t)
    \/ \E t \in Triggers : UserNotFound(t)
    \/ \E t \in Triggers : CreateEmptyDigest(t)
    \/ \E t \in Triggers : InsertPending(t)
    \/ \E t \in Triggers, failing \in SUBSET Categories : FetchHeadlines(t, failing)
    \/ \E t \in Triggers : FetchCrash(t)
    \/ \E t \in Triggers, out \in GenOutputs : GenerateOk(t, out)
    \/ \E t \in Triggers : GenerateFail(t)
    \/ \E t \in Triggers : CallerCommit(t)
    \/ \E t \in Triggers : CallerRollback(t)
    \/ \E t \in Triggers : DirectReturn(t)
    \/ \E t \in Triggers : DirectCommit(t)
    \/ \E u \in Users, new \in InterestChoices : UpdateInterests(u, new)

Spec == Init /\ [][Next]_vars

\* ------------------------------------------------------------------- claims
GenerateCall(t) == arg[t].op = "generate"

CallKey(t) == << arg[t].user, arg[t].date >>

\* every row version that exists, committed or flushed in a session
Rows == store \cup UNION {adds[t] : t \in Triggers}

\* exceptions of the Fetcher -> Generator pipeline
PipelineFailure(e) == e.type \in {"OpenAIError", "JSONDecodeError"}

\* C1: a generate_digest(force=false) call that follows a call which returned a
\* COMPLETED digest for the same (user, date) returns that digest, same id and
\* same content, and makes no Fetcher and no Generator call; the call that
\* generated a digest made exactly one Fetcher call and one Generator call.
C1_Idempotent ==
    \A t \in Triggers :
        /\ (GenerateCall(t) /\ ~arg[t].force /\ prior[t] # NoDigest) =>
              /\ pc[t] = "ret"
              /\ ret[t].id = prior[t].id
              /\ ret[t].content = prior[t].content
              /\ nFetch[t] = 0
              /\ nGen[t] = 0
        /\ (GenerateCall(t) /\ pc[t] = "ret" /\ cur[t] # 0) =>
              nFetch[t] = 1 /\ nGen[t] = 1

C1_Witness ==
    \E t \in Triggers :
        /\ GenerateCall(t) /\ ~arg[t].force /\ pc[t] = "ret"
        /\ prior[t] # NoDigest
        /\ prior[t].interests_included # << >>
        /\ ret[t] = prior[t]

\* C2: the committed table, and the table as every session sees it, never hold
\* two digest rows for the same (user_id, digest_date).
C2_OnePerUserDate ==
    /\ \A r1, r2 \in store : Key(r1) = Key(r2) => r1 = r2
    /\ \A t \in Triggers : \A r1, r2 \in View(t) : Key(r1) = Key(r2) => r1 = r2

C2_Witness ==
    \E t \in Triggers :
        /\ exc[t].type = "IntegrityError"
        /\ \E r \in View(t) : Key(r) = CallKey(t)

\* C3: when the scheduler or an endpoint has handled a Fetcher or Generator
\* failure of generate_digest, the store holds a FAILED digest for that
\* (user, date) carrying the error message.
C3_FailureRecorded ==
    [][\A t \in SchedTriggers \cup ApiTriggers :
          (/\ GenerateCall(t)
           /\ pc[t] = "raised"
           /\ PipelineFailure(exc[t])
           /\ pc'[t] = "idle")
          => \E r \in store' :
                 /\ Key(r) = CallKey(t)
                 /\ r.status = FAILED
                 /\ r.error_message = Str(exc[t])]_vars

\* C4: when the Fetcher or the Generator raises after the PENDING insert, the
\* digest of the call is FAILED, its error_message is the string of the
\* exception, its content the retry-later message, and the call raises that
\* exception; a call that inserted a PENDING record and returns normally
\* returns a COMPLETED digest.
C4_FailureMarksDigest ==
    \A t \in Triggers :
        /\ (pc[t] = "raised" /\ cur[t] # 0) =>
              /\ PipelineFailure(exc[t])
              /\ \E r \in View(t) :
                     /\ r.id = cur[t]
                     /\ r.status = FAILED
                     /\ r.error_message = Str(exc[t])
                     /\ r.content = FailedContent
        /\ (pc[t] = "ret" /\ cur[t] # 0) =>
              ret[t].status = COMPLETED /\ exc[t] = NoExc
        /\ \A r \in adds[t] :
              (r.id = cur[t] /\ r.status = FAILED) => pc[t] = "raised"

C4_Witness ==
    \E t \in Triggers :
        /\ pc[t] = "raised" /\ cur[t] # 0
        /\ exc[t] = OpenAIError
        /\ \E r \in View(t) : r.id = cur[t] /\ r.status = FAILED

C6_LeftoverRegenerated ==
    \A t \in Triggers :
        (/\ GenerateCall(t) /\ ~arg[t].force
         /\ existing[t].status \in {PENDING, FAILED}
         /\ ints[t] # << >>) =>
            /\ exc[t].type # "IntegrityError"
            /\ pc[t] = "ret" =>
                  ret[t].status = COMPLETED /\ ret[t].id # existing[t].id

\* C7: once generate_digest(force=true) has passed its delete step, the digest
\* it found is no longer in the table as its session sees it; the record it
\* creates and returns has another id, and old and new record are never in
\* the table together.
C7_ForceReplaces ==
    \A t \in Triggers :
        (GenerateCall(t) /\ arg[t].force /\ existing[t] # NoDigest) =>
            /\ pc[t] # "delete" => \A r \in View(t) : r.id # existing[t].id
            /\ cur[t] # existing[t].id
            /\ pc[t] = "ret" => ret[t].id # existing[t].id
            /\ cur[t] # 0 =>
                  ~(\E r1, r2 \in store : r1.id = existing[t].id /\ r2.id = cur[t])

C7_Witness ==
    \E t \in Triggers :
        /\ GenerateCall(t) /\ arg[t].force /\ existing[t] # NoDigest
        /\ pc[t] = "ret"
        /\ ret[t].id # existing[t].id
        /\ ret[t] \in View(t)

\* the call went into the no-interests branch
NoInterestsBranch(t) ==
    /\ GenerateCall(t)
    /\ arg[t].user \in Users
    /\ pc[t] \in {"ret", "raised"}
    /\ cur[t] = 0
    /\ ints[t] = << >>
    /\ existing[t].status # COMPLETED \/ arg[t].force

\* C8: a generate_digest call of a user without interests, no COMPLETED digest
\* existing, does not raise and returns a COMPLETED digest with empty
\* headlines_used and interests_included whose content carries the
\* no-interests message, without Fetcher or Generator call and without a
\* PENDING record.
C8_NoInterestsDigest ==
    \A t \in Triggers :
        (NoInterestsBranch(t) /\ existing[t].status # COMPLETED) =>
            /\ pc[t] = "ret"
            /\ ret[t].status = COMPLETED
            /\ ret[t].headlines_used = << >>
            /\ ret[t].interests_included = << >>
            /\ ret[t].content = EmptyDigestContent(arg[t].date, NoInterestsMessage)
            /\ nFetch[t] = 0 /\ nGen[t] = 0
            /\ \A r \in adds[t] : r.status # PENDING

\* a terminal row is taken away by a delete: the delete step of a session on
\* its own flushed row, or the commit of a session that deleted the row
DeletionStep(r) ==
    \/ \E t \in Triggers : r.id \in dels[t] /\ dels'[t] = {} /\ store' = View(t)
    \/ \E t \in Triggers :
           /\ r \in adds[t]
           /\ \/ pc[t] = "delete" /\ pc'[t] = "lookup"
              \/ pc[t] = "idle" /\ arg'[t].op = "delete"

\* C9: every digest row has a status of DigestStatus; a row of the generation
\* branch starts PENDING and only moves to COMPLETED or FAILED; a COMPLETED or
\* FAILED row keeps all its fields, and it only stops existing by a deletion.
C9_Lifecycle ==
    [][/\ \A r \in Rows' : r.status \in DigestStatus
       /\ \A r \in Rows' :
             (\A q \in Rows : q.id # r.id) =>
                 (r.status = PENDING \/ (r.status = COMPLETED /\ r.interests_included = << >>))
       /\ \A r \in Rows :
             r.status \in {COMPLETED, FAILED} => (r \in Rows' \/ DeletionStep(r))]_vars

\* C10: while a trigger is in the generation branch, PENDING record inserted,
\* the idempotency check of another trigger, made through its own session,
\* finds the PENDING digest.
C10_PendingVisible ==
    \A t \in Triggers : \A t2 \in Triggers \ {t} :
        (pc[t] \in {"fetch", "generate"}) =>
            get_digest_by_date(t2, arg[t].user, arg[t].date).status = PENDING

\* C11: a generate_digest call that found no digest at its idempotency check
\* and whose insert the uniqueness constraint rejects (another trigger
\* inserted first) does not raise: the rejection is absorbed as "already
\* being generated", so the scheduler has no failure to count.
C11_UniqueViolationAbsorbed ==
    \A t \in Triggers :
        (GenerateCall(t) /\ existing[t] = NoDigest) =>
            ~(pc[t] = "raised" /\ exc[t] = IntegrityError)

\* the on-demand call and the scheduled call are in flight together on one
\* (user, date), both without force
Overlap(a, s) ==
    /\ GenerateCall(a) /\ GenerateCall(s)
    /\ pc[a] # "idle" /\ pc[s] \notin {"idle", "picked"}
    /\ CallKey(a) = CallKey(s)
    /\ ~arg[a].force /\ ~arg[s].force

\* C12: while an on-demand generate_digest(force=false) and a scheduled
\* generation for the same (user, date) overlap, the Generator is called at
\* most once between them, at most one of them creates a digest, and neither
\* raises (a failure of the Fetcher or the Generator itself set aside).
C12_RaceSafe ==
    \A a \in ApiTriggers, s \in SchedTriggers :
        Overlap(a, s) =>
            /\ nGen[a] + nGen[s] <= 1
            /\ ~(cur[a] # 0 /\ cur[s] # 0)
            /\ \A t \in {a, s} : pc[t] = "raised" => PipelineFailure(exc[t])


\* ------------------------------------------------ scheduler: window matching
\* datetime + timedelta(minutes=...), then .time()
TimeOfDay(t) == t % MinutesPerDay

\* compute_time_window
compute_time_window(current_time_utc, window_minutes) ==
    LET window_start == TimeOfDay(current_time_utc)
        window_end == TimeOfDay(current_time_utc + window_minutes)
    IN [window_start |-> window_start,
        window_end |-> window_end,
        crosses_midnight |-> window_end < window_start]

\* a window that keeps its last instant
and_closed(preferred_time, window_start, window_end) ==
    preferred_time >= window_start /\ preferred_time <= window_end

\* and_(User.preferred_time >= window_start, User.preferred_time < window_end)
and_(preferred_time, window_start, window_end) ==
    preferred_time >= window_start /\ preferred_time < window_end

\* the midnight window queried with AND
or_as_and(preferred_time, window_start, window_end) ==
    preferred_time >= window_start /\ preferred_time < window_end

\* or_(User.preferred_time >= window_start, User.preferred_time < window_end)
or_(preferred_time, window_start, window_end) ==
    preferred_time >= window_start \/ preferred_time < window_end

time_condition(preferred_time, w) ==
    IF w.crosses_midnight
    THEN or_(preferred_time, w.window_start, w.window_end)
    ELSE and_(preferred_time, w.window_start, w.window_end)

\* a row of the users table as the query returns it
UserRow(a) ==
    [id |-> a, preferred_time |-> profile[a].preferred_time,
     is_active |-> profile[a].is_active]

\* get_users_due_for_digest
get_users_due_for_digest(current_time_utc, window_minutes) ==
    LET w == compute_time_window(current_time_utc, window_minutes) IN
    {UserRow(a) : a \in {b \in Accounts :
                            /\ profile[b].is_active
                            /\ time_condition(profile[b].preferred_time, w)}}

\* process_digest_generation, step 1: find the users in the current window
FindDueUsers(now, minutes) ==
    /\ wpc = "idle"
    /\ window' = [now |-> now, minutes |-> minutes]
    /\ due' = get_users_due_for_digest(now, minutes)
    /\ wpc' = "checked"
    /\ UNCHANGED profile
    /\ UNCHANGED outsideWindow

\* process_digest_generation returns: the list of due users is gone
WindowJobOver ==
    /\ wpc = "checked"
    /\ wpc' = "idle"
    /\ window' = NoWindow
    /\ due' = {}
    /\ UNCHANGED profile
    /\ UNCHANGED outsideWindow

\* user_service.update_preferences
update_preferences(a, preferred_time) ==
    /\ profile[a].preferred_time # preferred_time
    /\ profile' = [profile EXCEPT ![a].preferred_time = preferred_time]
    /\ UNCHANGED << wpc, window, due >>
    /\ UNCHANGED outsideWindow

\* user_service.deactivate_user
deactivate_user(a) ==
    /\ profile[a].is_active
    /\ profile' = [profile EXCEPT ![a].is_active = FALSE]
    /\ UNCHANGED << wpc, window, due >>
    /\ UNCHANGED outsideWindow

InitWindow ==
    /\ subscribed = [u \in Users |-> << >>]
    /\ DigestIdle
    /\ WindowIdle
    /\ LimiterIdle
    /\ MiddlewareConf
    /\ RequestsIdle
    /\ BatchIdle
    /\ NewsIdle
    /\ SanitizerIdle
    /\ TicksIdle
    /\ PurgeIdle
    /\ CacheIdle

NextWindow ==
    \/ \E now \in Instants, minutes \in WindowLengths : FindDueUsers(now, minutes)
    \/ WindowJobOver
    \/ \E a \in Accounts, p \in PreferredTimes : update_preferences(a, p)
    \/ \E a \in Accounts : deactivate_user(a)

SpecWindow == InitWindow /\ [][NextWindow]_vars

\* the window check is being made in this step
WindowChecked == wpc = "idle" /\ wpc' = "checked"

\* the active users with a preferred time satisfying cond, as rows
ActiveWhere(cond(_)) ==
    {UserRow(a) : a \in {b \in Accounts :
                            profile[b].is_active /\ cond(profile[b].preferred_time)}}

\* C13: a window check at time of day T with length W, T + W before midnight,
\* returns exactly the active users with T <= preferred_time < T + W.
C13_DueInWindow ==
    [][(WindowChecked /\ window'.now + window'.minutes < MinutesPerDay) =>
          LET T == window'.now
              W == window'.minutes
              In(p) == T <= p /\ p < T + W
          IN due' = ActiveWhere(In)]_vars

C13_Witness ==
    /\ wpc = "checked"
    /\ window.now + window.minutes < MinutesPerDay
    /\ \E r \in due : r.preferred_time = window.now
    /\ \E a \in Accounts :
           /\ profile[a].is_active
           /\ profile[a].preferred_time = window.now + window.minutes
           /\ \A r \in due : r.id # a

\* C14: a window check whose window, shorter than a day, reaches or passes
\* midnight returns exactly the active users with preferred_time >= T or
\* preferred_time < the time of day of T + W.
C14_DueAcrossMidnight ==
    [][(/\ WindowChecked
        /\ window'.minutes < MinutesPerDay
        /\ window'.now + window'.minutes >= MinutesPerDay) =>
          LET T == window'.now
              E == window'.now + window'.minutes - MinutesPerDay
              In(p) == p >= T \/ p < E
          IN due' = ActiveWhere(In)]_vars

C14_Witness ==
    /\ wpc = "checked"
    /\ window = [now |-> 1430, minutes |-> 15]
    /\ \E r \in due : r.preferred_time \in {4, 1435}
    /\ \E a \in Accounts :
           /\ profile[a].is_active
           /\ profile[a].preferred_time \in {5, 720}
           /\ \A r \in due : r.id # a

\* ------------------------------------------------ ticks of the interval trigger
\* trigger="interval", minutes=W: the next run time is the previous one plus W; the
\* tick runs get_users_due_for_digest(now, W)
IntervalTick(now) ==
    /\ IF fired < 0 THEN now \in FirstTicks ELSE now = fired + interval
    /\ now <= MaxMinute
    /\ began' = IF fired < 0 THEN now ELSE began
    /\ fired' = now
    /\ window' = [now |-> TimeOfDay(now), minutes |-> interval]
    /\ due' = get_users_due_for_digest(now, interval)
    /\ picked' = [a \in Accounts |->
                     {t \in picked[a] : t > now - MinutesPerDay}
                        \cup (IF \E r \in get_users_due_for_digest(now, interval) : r.id = a
                              THEN {now} ELSE {})]
    /\ UNCHANGED << profile, wpc, interval >>
    /\ UNCHANGED outsideTicks

InitTicks ==
    /\ subscribed = [u \in Users |-> << >>]
    /\ DigestIdle
    /\ LimiterIdle
    /\ MiddlewareConf
    /\ RequestsIdle
    /\ BatchIdle
    /\ NewsIdle
    /\ SanitizerIdle
    /\ CacheIdle
    /\ PurgeIdle
    /\ profile \in [Accounts -> [preferred_time : PreferredTimes, is_active : BOOLEAN]]
    /\ wpc = "idle"
    /\ window = NoWindow
    /\ due = {}
    /\ interval \in TickIntervals
    /\ began = -1
    /\ fired = -1
    /\ picked = [a \in Accounts |-> {}]

NextTicks == \E now \in FirstTicks \cup {fired + interval} : IntervalTick(now)

SpecTicks == InitTicks /\ [][NextTicks]_vars

\* the 24 hours that end with the latest tick hold only ticks that were followed
DayOfTicks == fired >= 0 /\ fired - began >= MinutesPerDay - interval

\* C38: with ticks exactly every W minutes, 1 <= W < 1440, each using a window of W
\* minutes, every active user's preferred_time is matched by exactly one tick in every
\* 24-hour period: never by two ticks, and never by none in 24 hours of ticks.
C38_OneTickPerDay ==
    \A a \in Accounts :
        profile[a].is_active =>
            /\ Cardinality(picked[a]) <= 1
            /\ DayOfTicks => picked[a] # {}

\* the windows of consecutive ticks are disjoint and contiguous: a tick selects an
\* active user exactly when its window [now, now + W) holds an instant whose time of
\* day is the user's preferred_time
C38_WindowsTile ==
    \A a \in Accounts :
        (fired >= 0 /\ profile[a].is_active) =>
            ((\E r \in due : r.id = a)
                <=> \E o \in fired..(fired + interval - 1) :
                        TimeOfDay(o) = profile[a].preferred_time)

\* the part of C38 that holds: intervals that divide the day
C38_OneTickPerDayWhenDividing ==
    MinutesPerDay % interval = 0 => C38_OneTickPerDay
LaterDay == window.now + window.minutes >= MinutesPerDay

\* C39: for every instant T and every window length W >= 1 that the configuration
\* permits, compute_time_window gives crosses_midnight = true exactly when T + W falls
\* on a later calendar day than T.
C39_CrossesMidnightIffLaterDay ==
    wpc = "checked" =>
        (compute_time_window(window.now, window.minutes).crosses_midnight <=> LaterDay)

\* the part of C39 that holds: windows shorter than a day
C39_ShortWindows ==
    (wpc = "checked" /\ window.minutes < MinutesPerDay) =>
        (compute_time_window(window.now, window.minutes).crosses_midnight <=> LaterDay)


\* ---------------------------------------------------------------- RateLimiter
Min(a, b) == IF a <= b THEN a ELSE b

\* a bucket that starts empty
new_bucket_empty(l, now) == [tokens |-> 0, last_refill |-> now]

\* defaultdict factory: RateLimitBucket(tokens=burst, last_refill=time.time())
new_bucket(l, now) == [tokens |-> conf[l].burst * Scale, last_refill |-> now]

\* self.buckets[key]
lookup(bs, l, key, now) ==
    IF bs[l][key] = NoBucket THEN new_bucket(l, now) ELSE bs[l][key]

\* a write that reaches every bucket of the limiter
put_everywhere(bs, l, key, bucket) == [bs EXCEPT ![l] = [k \in Keys |-> bucket]]

\* the bucket object of key, as mutated by the call
put(bs, l, key, bucket) == [bs EXCEPT ![l][key] = bucket]

\* no cap
cap_none(l, tokens) == tokens

\* _refill: min(self.burst, ...)
cap(l, tokens) == Min(conf[l].burst * Scale, tokens)

\* a refill without the burst cap
refill_uncapped(l, bucket, now) ==
    [tokens |-> bucket.tokens + (now - bucket.last_refill) * conf[l].requests_per_minute,
     last_refill |-> now]

\* _refill: tokens = min(burst, tokens + elapsed * rate), last_refill = now
refill(l, bucket, now) ==
    [tokens |-> cap(l, bucket.tokens
                         + (now - bucket.last_refill) * conf[l].requests_per_minute),
     last_refill |-> now]

\* int(tokens_needed / rate), without the + 1
retry_after_short(l, tokens) ==
    (Scale - tokens) \div (conf[l].requests_per_minute * TicksPerSecond)

\* retry_after = int(tokens_needed / self.rate) + 1, in seconds
retry_after(l, tokens) ==
    ((Scale - tokens) \div (conf[l].requests_per_minute * TicksPerSecond)) + 1

\* a grant that takes no token
is_allowed_free(bs, l, key, now) ==
    LET bucket == refill(l, lookup(bs, l, key, now), now) IN
    IF bucket.tokens >= Scale
    THEN [buckets |-> put(bs, l, key, bucket),
          allowed |-> TRUE, retry_after |-> 0, refilled |-> bucket.tokens]
    ELSE [buckets |-> put(bs, l, key, bucket),
          allowed |-> FALSE, retry_after |-> retry_after(l, bucket.tokens),
          refilled |-> bucket.tokens]

\* is_allowed
is_allowed(bs, l, key, now) ==
    LET bucket == refill(l, lookup(bs, l, key, now), now) IN
    IF bucket.tokens >= Scale
    THEN [buckets |-> put(bs, l, key, [bucket EXCEPT !.tokens = @ - Scale]),
          allowed |-> TRUE, retry_after |-> 0, refilled |-> bucket.tokens]
    ELSE [buckets |-> put(bs, l, key, bucket),
          allowed |-> FALSE, retry_after |-> retry_after(l, bucket.tokens),
          refilled |-> bucket.tokens]

\* get_remaining
get_remaining(bs, l, key, now) ==
    LET bucket == refill(l, lookup(bs, l, key, now), now) IN
    [buckets |-> put(bs, l, key, bucket),
     remaining |-> bucket.tokens \div Scale,
     refilled |-> bucket.tokens]

\* reset
reset(bs, l) == [bs EXCEPT ![l] = [k \in Keys |-> NoBucket]]

\* keys whose bucket is at least max_age_seconds old
old_keys_inclusive(bs, l, now, max_age_seconds) ==
    {k \in Keys : /\ bs[l][k] # NoBucket
                  /\ now - bs[l][k].last_refill >= max_age_seconds * TicksPerSecond}

\* cleanup_old_buckets: old_keys = [key for key, bucket in self.buckets.items()
\* if now - bucket.last_refill > max_age_seconds]
old_keys(bs, l, now, max_age_seconds) ==
    {k \in Keys : /\ bs[l][k] # NoBucket
                  /\ now - bs[l][k].last_refill > max_age_seconds * TicksPerSecond}

\* cleanup_old_buckets: del self.buckets[key] for key in old_keys
cleanup_old_buckets(bs, l, now, max_age_seconds) ==
    [bs EXCEPT ![l] =
        [k \in Keys |->
            IF k \in old_keys(bs, l, now, max_age_seconds) THEN NoBucket ELSE bs[l][k]]]

\* cleanup_old_buckets: return len(old_keys)
cleanup_removed(bs, l, now, max_age_seconds) ==
    Cardinality(old_keys(bs, l, now, max_age_seconds))

\* history of the buckets that are gone
Forget(h, bs, l) ==
    [h EXCEPT ![l] = [k \in Keys |->
        IF bs[l][k] = NoBucket THEN [h[l][k] EXCEPT !.born = -1, !.calls = 0]
        ELSE h[l][k]]]

\* the limiter a test builds and calls directly
DirectLimiters == {"default_limiter"}

\* limiter.is_allowed(key)
CallIsAllowed(l, key) ==
    LET r == is_allowed(buckets, l, key, clock)
        h == hist[l][key]
        fresh == buckets[l][key] = NoBucket
        calls == IF fresh THEN 1 ELSE Min(h.calls + 1, conf[l].burst + 1)
    IN
    /\ buckets' = r.buckets
    /\ last' = [op |-> "is_allowed", limiter |-> l, key |-> key, at |-> clock,
                before |-> buckets[l][key], refilled |-> r.refilled,
                allowed |-> r.allowed, retry_after |-> r.retry_after,
                remaining |-> 0, after_denial |-> h.denied, calls |-> calls,
                removed |-> 0]
    /\ hist' = [hist EXCEPT ![l][key] =
                   [denied |-> IF r.allowed THEN NoDenial
                               ELSE [at |-> clock, retry_after |-> r.retry_after],
                    born |-> IF fresh THEN clock ELSE h.born,
                    calls |-> calls]]
    /\ UNCHANGED << clock, conf, last_cleanup, req, resp >>
    /\ UNCHANGED outsideLimiter

\* limiter.get_remaining(key)
CallGetRemaining(l, key) ==
    LET r == get_remaining(buckets, l, key, clock)
        h == hist[l][key]
        fresh == buckets[l][key] = NoBucket
    IN
    /\ buckets' = r.buckets
    /\ last' = [op |-> "get_remaining", limiter |-> l, key |-> key, at |-> clock,
                before |-> buckets[l][key], refilled |-> r.refilled,
                allowed |-> FALSE, retry_after |-> 0,
                remaining |-> r.remaining, after_denial |-> h.denied,
                calls |-> IF fresh THEN 0 ELSE h.calls, removed |-> 0]
    /\ hist' = [hist EXCEPT ![l][key] =
                   [denied |-> NoDenial,
                    born |-> IF fresh THEN clock ELSE h.born,
                    calls |-> IF fresh THEN 0 ELSE h.calls]]
    /\ UNCHANGED << clock, conf, last_cleanup, req, resp >>
    /\ UNCHANGED outsideLimiter

\* limiter.reset()
CallReset(l) ==
    /\ \E k \in Keys : buckets[l][k] # NoBucket
    /\ buckets' = reset(buckets, l)
    /\ last' = [NoCall EXCEPT !.op = "reset", !.limiter = l, !.at = clock]
    /\ hist' = Forget(hist, reset(buckets, l), l)
    /\ UNCHANGED << clock, conf, last_cleanup, req, resp >>
    /\ UNCHANGED outsideLimiter

\* limiter.cleanup_old_buckets(max_age_seconds)
CallCleanup(l, max_age_seconds) ==
    LET bs == cleanup_old_buckets(buckets, l, clock, max_age_seconds) IN
    /\ bs # buckets
    /\ buckets' = bs
    /\ last' = [NoCall EXCEPT !.op = "cleanup_old_buckets", !.limiter = l, !.at = clock,
                              !.removed = cleanup_removed(buckets, l, clock, max_age_seconds)]
    /\ hist' = Forget(hist, bs, l)
    /\ UNCHANGED << clock, conf, last_cleanup, req, resp >>
    /\ UNCHANGED outsideLimiter

\* time passes: the next reading of time.time() is later
Advance(now) ==
    /\ now > clock
    /\ clock' = now
    /\ UNCHANGED << conf, buckets, last, hist, last_cleanup, req, resp >>
    /\ UNCHANGED outsideLimiter

InitLimiter ==
    /\ subscribed = [u \in Users |-> << >>]
    /\ DigestIdle
    /\ WindowIdle
    /\ LimiterIdle
    /\ RequestsIdle
    /\ BatchIdle
    /\ NewsIdle
    /\ SanitizerIdle
    /\ TicksIdle
    /\ PurgeIdle
    /\ CacheIdle
    /\ conf \in {c \in [Limiters -> LimiterConfigs \cup {AuthConfig}] :
                    c["auth_limiter"] = AuthConfig}

NextLimiter ==
    \/ \E l \in DirectLimiters, key \in Keys : CallIsAllowed(l, key)
    \/ \E l \in DirectLimiters, key \in Keys : CallGetRemaining(l, key)
    \/ \E l \in DirectLimiters : CallReset(l)
    \/ \E l \in DirectLimiters, m \in MaxAges : CallCleanup(l, m)
    \/ \E now \in ClockReadings : Advance(now)

SpecLimiter == InitLimiter /\ [][NextLimiter]_vars

\* ceil(a / b) for a >= 0 and b > 0
Ceil(a, b) == (a + b - 1) \div b

\* the bucket a call of `last` started from
StartBucket ==
    IF last.before = NoBucket
    THEN [tokens |-> conf[last.limiter].burst * Scale, last_refill |-> last.at]
    ELSE last.before

\* C15: is_allowed(key) refills the bucket to min(burst, tokens + elapsed *
\* rate) and sets last_refill to now; it grants with retry_after 0 and takes
\* exactly one token iff the refilled count is at least 1; a denial leaves
\* the refilled count as it is.
C15_TokenBucket ==
    last.op = "is_allowed" =>
        LET cfg == conf[last.limiter]
            expected == Min(cfg.burst * Scale,
                            StartBucket.tokens
                              + (last.at - StartBucket.last_refill) * cfg.requests_per_minute)
            bucket == buckets[last.limiter][last.key]
        IN /\ last.refilled = expected
           /\ last.allowed <=> expected >= Scale
           /\ last.allowed => last.retry_after = 0
           /\ bucket.last_refill = last.at
           /\ bucket.tokens = IF last.allowed THEN expected - Scale ELSE expected

C15_Witness ==
    /\ last.op = "is_allowed"
    /\ ~last.allowed
    /\ last.before # NoBucket
    /\ last.at > last.before.last_refill
    /\ last.refilled > last.before.tokens

\* C16: on a denial, retry_after = ceil((1 - tokens) / rate) for the refilled
\* token count, and it is at least 1.
C16_RetryAfterIsCeil ==
    (last.op = "is_allowed" /\ ~last.allowed) =>
        /\ last.retry_after =
              Ceil(Scale - last.refilled,
                   conf[last.limiter].requests_per_minute * TicksPerSecond)
        /\ last.retry_after >= 1

\* C17: an is_allowed(k) that follows a denial on k with retry_after = r, no
\* other call on k in between, and is made at least r seconds after the
\* denial, is granted; with 60 requests per minute and burst 1, one second
\* after the denial is enough.
C17_RetryAfterSufficient ==
    (last.op = "is_allowed" /\ last.after_denial # NoDenial) =>
        /\ last.at >= last.after_denial.at
                        + last.after_denial.retry_after * TicksPerSecond
              => last.allowed
        /\ (/\ conf[last.limiter] = [requests_per_minute |-> 60, burst |-> 1]
            /\ last.at >= last.after_denial.at + TicksPerSecond)
              => last.allowed

C17_Witness ==
    /\ last.op = "is_allowed"
    /\ last.after_denial # NoDenial
    /\ last.before # NoBucket
    /\ last.at = last.after_denial.at + last.after_denial.retry_after * TicksPerSecond
    /\ last.allowed

\* C18: is_allowed(k) and get_remaining(k) leave every bucket other than k's
\* as it is.
C18_KeyIsolation ==
    [][\A l \in Limiters, k \in Keys :
          (CallIsAllowed(l, k) \/ CallGetRemaining(l, k)) =>
              \A l2 \in Limiters, k2 \in Keys :
                  << l2, k2 >> # << l, k >> => buckets'[l2][k2] = buckets[l2][k2]]_vars

C18_Witness ==
    /\ last.op = "is_allowed"
    /\ last.allowed
    /\ last.before = NoBucket
    /\ \E k \in Keys \ {last.key} :
           /\ buckets[last.limiter][k] # NoBucket
           /\ buckets[last.limiter][k].tokens < Scale
           /\ buckets[last.limiter][k].last_refill = last.at

\* C19: a key without bucket gets at its first use a bucket of burst tokens
\* and its first request is granted; while the clock shows the time the
\* bucket was created, the first burst is_allowed calls are granted and the
\* following ones are denied.
C19_FreshBucketFull ==
    /\ (last.op \in {"is_allowed", "get_remaining"} /\ last.before = NoBucket) =>
          /\ last.refilled = conf[last.limiter].burst * Scale
          /\ last.op = "is_allowed" => last.allowed
    /\ (last.op = "is_allowed" /\ hist[last.limiter][last.key].born = last.at) =>
          (last.allowed <=> last.calls <= conf[last.limiter].burst)

C19_Witness ==
    /\ last.op = "is_allowed"
    /\ hist[last.limiter][last.key].born = last.at
    /\ last.calls = conf[last.limiter].burst + 1
    /\ ~last.allowed


\* C35: every bucket of a RateLimiter holds at least 0 and at most burst tokens, after
\* any sequence of is_allowed, get_remaining, reset and cleanup_old_buckets calls on any
\* keys, the clock never going backwards.
C35_TokensWithinBurst ==
    \A l \in Limiters, k \in Keys :
        buckets[l][k] # NoBucket =>
            /\ 0 <= buckets[l][k].tokens
            /\ buckets[l][k].tokens <= conf[l].burst * Scale

\* a bucket that was drained and left alone for longer than it takes to fill up has been
\* refilled up to burst, no further, while another bucket is empty
C35_Witness ==
    /\ last.op = "get_remaining"
    /\ last.before # NoBucket
    /\ last.before.tokens
          + (last.at - last.before.last_refill) * conf[last.limiter].requests_per_minute
            > conf[last.limiter].burst * Scale
    /\ buckets[last.limiter][last.key].tokens = conf[last.limiter].burst * Scale
    /\ \E k \in Keys \ {last.key} : buckets[last.limiter][k].tokens = 0
\* every path admitted against the default limiter
select_default(path) == "default_limiter"

\* dispatch: limiter = auth_limiter if path in AUTH_PATHS else default_limiter
select_limiter(path) ==
    IF path \in AUTH_PATHS THEN "auth_limiter" ELSE "default_limiter"

\* dispatch, periodic cleanup: both limiters, default max age
periodic_cleanup(bs, now) ==
    cleanup_old_buckets(
        cleanup_old_buckets(bs, "default_limiter", now, CleanupSeconds),
        "auth_limiter", now, CleanupSeconds)

\* dispatch, periodic cleanup: removed = the two counts added
periodic_removed(bs, now) ==
    cleanup_removed(bs, "default_limiter", now, CleanupSeconds)
      + cleanup_removed(cleanup_old_buckets(bs, "default_limiter", now, CleanupSeconds),
                        "auth_limiter", now, CleanupSeconds)

CleanupDue == clock - last_cleanup > CleanupSeconds * TicksPerSecond

\* dispatch up to call_next: exempt paths pass, the others are admitted or
\* answered 429 by the selected limiter; one admitted request at a time is
\* followed through call_next
Dispatch(path, key) ==
    IF path \in EXEMPT_PATHS
    THEN /\ resp' = [NoResp EXCEPT !.path = path, !.status = 200]
         /\ UNCHANGED << clock, conf, buckets, last, hist, last_cleanup, req >>
         /\ UNCHANGED outsideLimiter
    ELSE LET bs == IF CleanupDue THEN periodic_cleanup(buckets, clock) ELSE buckets
             l == select_limiter(path)
             r == is_allowed(bs, l, key, clock)
         IN
         /\ r.allowed => req = NoReq
         /\ buckets' = r.buckets
         /\ last_cleanup' = IF CleanupDue THEN clock ELSE last_cleanup
         /\ IF r.allowed
            THEN /\ req' = [path |-> path, key |-> key, limiter |-> l]
                 /\ UNCHANGED resp
            ELSE /\ resp' = [path |-> path, key |-> key, limiter |-> l, status |-> 429,
                             retry_after |-> r.retry_after, remaining |-> 0]
                 /\ UNCHANGED req
         /\ last' = IF CleanupDue
                    THEN [NoCall EXCEPT !.op = "periodic_cleanup", !.at = clock,
                                        !.removed = periodic_removed(buckets, clock)]
                    ELSE last
         /\ UNCHANGED << clock, conf, hist >>
         /\ UNCHANGED outsideLimiter

\* dispatch after call_next: X-RateLimit-Remaining from get_remaining
Respond ==
    LET r == get_remaining(buckets, req.limiter, req.key, clock) IN
    /\ req # NoReq
    /\ buckets' = r.buckets
    /\ resp' = [path |-> req.path, key |-> req.key, limiter |-> req.limiter,
                status |-> 200, retry_after |-> 0, remaining |-> r.remaining]
    /\ req' = NoReq
    /\ UNCHANGED << clock, conf, last, hist, last_cleanup >>
    /\ UNCHANGED outsideLimiter

\* RateLimitMiddleware.reset_all_limiters
reset_all_limiters ==
    /\ \E l \in Limiters, k \in Keys : buckets[l][k] # NoBucket
    /\ buckets' = reset(reset(buckets, "default_limiter"), "auth_limiter")
    /\ UNCHANGED << clock, conf, last, hist, last_cleanup, req, resp >>
    /\ UNCHANGED outsideLimiter

InitMiddleware ==
    /\ subscribed = [u \in Users |-> << >>]
    /\ DigestIdle
    /\ WindowIdle
    /\ LimiterIdle
    /\ MiddlewareConf
    /\ RequestsIdle
    /\ BatchIdle
    /\ NewsIdle
    /\ SanitizerIdle
    /\ TicksIdle
    /\ PurgeIdle
    /\ CacheIdle

NextMiddleware ==
    \/ \E path \in Paths, key \in Keys : Dispatch(path, key)
    \/ Respond
    \/ reset_all_limiters
    \/ \E l \in Limiters, m \in MaxAges \cup {CleanupSeconds} : CallCleanup(l, m)
    \/ \E now \in MiddlewareReadings : Advance(now)

SpecMiddleware == InitMiddleware /\ [][NextMiddleware]_vars

\* no bucket of limiter l loses a token or is refilled in this step: each is
\* as it was, or purged
Untouched(l) ==
    \A k \in Keys : buckets'[l][k] = buckets[l][k] \/ buckets'[l][k] = NoBucket

\* the request of this step is answered 429
Denied(path, key) ==
    resp' = [resp' EXCEPT !.path = path, !.key = key, !.status = 429] /\ req' = req

\* the tokens key has in limiter l when the request arrives, refilled
TokensAt(l, key) ==
    LET bs == IF CleanupDue THEN periodic_cleanup(buckets, clock) ELSE buckets
        start == IF bs[l][key] = NoBucket
                 THEN [tokens |-> conf[l].burst * Scale, last_refill |-> clock]
                 ELSE bs[l][key]
    IN Min(conf[l].burst * Scale,
           start.tokens + (clock - start.last_refill) * conf[l].requests_per_minute)

Stale(l, k, max_age) ==
    /\ buckets[l][k] # NoBucket
    /\ clock - buckets[l][k].last_refill > max_age * TicksPerSecond

\* buckets of limiter l this step removed
Purged(l) == {k \in Keys : buckets[l][k] # NoBucket /\ buckets'[l][k] = NoBucket}

\* C31: dispatch purges only for a non-exempt request that arrives more than
\* 3600 s after the previous purge, and then sets the last-purge time to
\* now; the purge removes, in both limiters, exactly the buckets whose
\* last_refill is more than 3600 s old and counts them; cleanup_old_buckets
\* (max_age) removes exactly the buckets of its limiter that are more than
\* max_age old, returns their number and leaves every other bucket as it is.
C31_StaleBucketPurge ==
    [][/\ \A path \in Paths, key \in Keys :
             Dispatch(path, key) =>
                 IF path \notin EXEMPT_PATHS
                    /\ clock - last_cleanup > 3600 * TicksPerSecond
                 THEN /\ last_cleanup' = clock
                      /\ last'.op = "periodic_cleanup"
                      /\ last'.removed =
                            Cardinality({lk \in Limiters \X Keys : Stale(lk[1], lk[2], 3600)})
                      /\ \A l \in Limiters, k \in Keys :
                            IF << l, k >> = << select_limiter(path), key >>
                            THEN Stale(l, k, 3600) =>
                                   /\ buckets'[l][k].last_refill = clock
                                   /\ buckets'[l][k].tokens = (conf[l].burst - 1) * Scale
                            ELSE buckets'[l][k] =
                                   IF Stale(l, k, 3600) THEN NoBucket ELSE buckets[l][k]
                 ELSE /\ last_cleanup' = last_cleanup
                      /\ last' = last
                      /\ \A l \in Limiters : Purged(l) = {}
       /\ Respond => (last_cleanup' = last_cleanup /\ \A l \in Limiters : Purged(l) = {})
       /\ \A l \in Limiters, m \in MaxAges \cup {CleanupSeconds} :
             CallCleanup(l, m) =>
                 /\ last'.removed = Cardinality({k \in Keys : Stale(l, k, m)})
                 /\ last_cleanup' = last_cleanup
                 /\ \A l2 \in Limiters, k \in Keys :
                       buckets'[l2][k] =
                          IF l2 = l /\ Stale(l, k, m) THEN NoBucket ELSE buckets[l2][k]]_vars

\* a purge inside dispatch has removed buckets and kept a bucket that another
\* key refilled at the very time of the purge
C31_Witness ==
    /\ last.op = "periodic_cleanup"
    /\ last.at = clock
    /\ last_cleanup = clock
    /\ last.removed >= 2
    /\ \E l \in Limiters, k \in Keys :
           /\ buckets[l][k] # NoBucket
           /\ buckets[l][k].tokens = conf[l].burst * Scale
           /\ buckets[l][k].last_refill = clock
    /\ \E l \in Limiters, k \in Keys : buckets[l][k] = NoBucket


\* ----------------------------------------- a purged limiter and an unpurged one
\* two RateLimiter objects built with the same arguments, held in the two limiter slots:
\* the first is purged as dispatch purges it, the second never
PurgedLimiter == "default_limiter"

PlainLimiter == "auth_limiter"

\* the same request is put to both limiters: is_allowed(key) on each
AskBoth(key) ==
    LET a == is_allowed(buckets, PurgedLimiter, key, clock)
        b == is_allowed(a.buckets, PlainLimiter, key, clock)
    IN
    /\ buckets' = b.buckets
    /\ verdict' = [verdict EXCEPT ![PurgedLimiter] = IF a.allowed THEN "granted" ELSE "denied",
                                  ![PlainLimiter] = IF b.allowed THEN "granted" ELSE "denied"]
    /\ UNCHANGED << clock, conf, last, hist, last_cleanup, req, resp >>
    /\ UNCHANGED outsidePurge

\* cleanup_old_buckets() on the first limiter, with the default max age
PurgeStale ==
    LET bs == cleanup_old_buckets(buckets, PurgedLimiter, clock, CleanupSeconds) IN
    /\ bs # buckets
    /\ buckets' = bs
    /\ UNCHANGED << clock, conf, last, hist, last_cleanup, req, resp, verdict >>
    /\ UNCHANGED outsidePurge

\* time passes
PurgeAdvance(now) ==
    /\ now > clock
    /\ clock' = now
    /\ UNCHANGED << conf, buckets, last, hist, last_cleanup, req, resp, verdict >>
    /\ UNCHANGED outsidePurge

InitPurge ==
    /\ subscribed = [u \in Users |-> << >>]
    /\ DigestIdle
    /\ WindowIdle
    /\ LimiterIdle
    /\ RequestsIdle
    /\ BatchIdle
    /\ NewsIdle
    /\ SanitizerIdle
    /\ TicksIdle
    /\ CacheIdle
    /\ PurgeIdle
    /\ conf \in { [l \in Limiters |-> c] : c \in PurgeConfigs }

NextPurge ==
    \/ \E key \in Keys : AskBoth(key)
    \/ PurgeStale
    \/ \E now \in PurgeReadings : PurgeAdvance(now)

SpecPurge == InitPurge /\ [][NextPurge]_vars

\* C36: for every permitted configuration and every sequence of requests and elapsed
\* times, the limiter whose stale buckets are purged gives every request the answer
\* the limiter that is never purged gives.
C36_PurgeKeepsDecisions == verdict[PurgedLimiter] = verdict[PlainLimiter]

\* the part of C36 that holds: the answers agree whenever an hour refills at least a
\* full burst, as with the default settings
C36_SameWhenHourRefillsBurst ==
    \A l \in Limiters :
        conf[l].requests_per_minute * 60 >= conf[l].burst =>
            verdict[PurgedLimiter] = verdict[PlainLimiter]
\* grants followed per limiter
MaxGrants == 5

\* dispatch of request r up to its first await: cleanup, limiter selection
\* and is_allowed run without suspension; an admitted request then waits in
\* call_next while other requests are dispatched
Arrive(r, path) ==
    LET bs == IF CleanupDue THEN periodic_cleanup(buckets, clock) ELSE buckets
        l == select_limiter(path)
        res == is_allowed(bs, l, SharedKey, clock)
    IN
    /\ rpc[r] = "new"
    /\ path \notin EXEMPT_PATHS
    /\ granted[l] < MaxGrants
    /\ buckets' = res.buckets
    /\ last_cleanup' = IF CleanupDue THEN clock ELSE last_cleanup
    /\ rlim' = [rlim EXCEPT ![r] = l]
    /\ IF res.allowed
       THEN /\ rpc' = [rpc EXCEPT ![r] = "call_next"]
            /\ granted' = [granted EXCEPT ![l] = @ + 1]
       ELSE /\ rpc' = [rpc EXCEPT ![r] = "denied"]
            /\ UNCHANGED granted
    /\ UNCHANGED << clock, conf, last, hist, req, resp >>
    /\ UNCHANGED outsideRequests

\* call_next returned for r: get_remaining for the response header
Leave(r) ==
    /\ rpc[r] = "call_next"
    /\ buckets' = get_remaining(buckets, rlim[r], SharedKey, clock).buckets
    /\ rpc' = [rpc EXCEPT ![r] = "responded"]
    /\ UNCHANGED << clock, conf, last, hist, last_cleanup, req, resp, rlim, granted >>
    /\ UNCHANGED outsideRequests

\* the client of r sends its next request
NextRequest(r) ==
    /\ rpc[r] \in {"responded", "denied"}
    /\ rpc' = [rpc EXCEPT ![r] = "new"]
    /\ rlim' = [rlim EXCEPT ![r] = ""]
    /\ UNCHANGED granted
    /\ UNCHANGED limiterVars
    /\ UNCHANGED outsideRequests

InitRequests ==
    /\ subscribed = [u \in Users |-> << >>]
    /\ DigestIdle
    /\ WindowIdle
    /\ LimiterIdle
    /\ MiddlewareConf
    /\ RequestsIdle
    /\ BatchIdle
    /\ NewsIdle
    /\ SanitizerIdle
    /\ TicksIdle
    /\ PurgeIdle
    /\ CacheIdle

NextRequests ==
    \/ \E r \in Requests, path \in Paths : Arrive(r, path)
    \/ \E r \in Requests : Leave(r)
    \/ \E r \in Requests : NextRequest(r)
    \/ \E now \in RequestReadings : Advance(now)

SpecRequests == InitRequests /\ [][NextRequests]_vars

compute_digest_date(day) == day - 1

\* select Digest.id where user_id, digest_date and status = COMPLETED
completed_exists(rows, user_id, digest_date) == << user_id, digest_date >> \in rows

\* what DigestService.generate_digest(force=False) can do for the batch: return the digest
\* that exists, commit a COMPLETED one, or raise
Outcomes == {"completed", "existing", "raises"}

generate_user_digest_today(rows, user_id, digest_date, day, outcome) ==
    LET d == compute_digest_date(day)
        present == << user_id, d >> \in rows
    IN
    [call |-> [op |-> "generate", user |-> user_id, date |-> d, force |-> FALSE,
               found |-> present, on |-> day],
     success |-> present \/ outcome # "raises",
     rows |-> IF ~present /\ outcome = "completed"
              THEN rows \cup {<< user_id, d >>} ELSE rows]

\* generate_user_digest in its own session, called on calendar day "day": the success flag
\* it returns, the orchestrator call it makes and the COMPLETED rows after its commit or
\* rollback
generate_user_digest(rows, user_id, digest_date, day, outcome) ==
    LET present == << user_id, digest_date >> \in rows
    IN
    [call |-> [op |-> "generate", user |-> user_id, date |-> digest_date, force |-> FALSE,
               found |-> present, on |-> day],
     success |-> present \/ outcome # "raises",
     rows |-> IF ~present /\ outcome = "completed"
              THEN rows \cup {<< user_id, digest_date >>} ELSE rows]

\* the outer except Exception of process_digest_generation: log, leave the loop
outer_except(b) == [b EXCEPT !.pc = "done", !.caught = TRUE]

\* end of one iteration of "for user in users": the next user, or the summary and return
next_user(b) ==
    IF b.i = Len(b.users)
    THEN [b EXCEPT !.pc = "done"]
    ELSE [b EXCEPT !.i = @ + 1, !.pc = "interests"]

\* the task slot asyncio.create_task uses
FreeTask == CHOOSE t \in Tasks : batch[t].pc = "none"

\* asyncio.create_task(process_digest_generation())
create_task ==
    /\ \E t \in Tasks : batch[t].pc = "none"
    /\ batch' = [batch EXCEPT ![FreeTask] = [NoTask EXCEPT !.pc = "created"]]

\* start_scheduler: scheduler.start(), then schedule_digest_jobs registers the interval job
\* and launches the start-up run
schedule_digest_jobs ==
    /\ sched = "stopped"
    /\ sched' = "started"
    /\ create_task
    /\ UNCHANGED << ticks, today, has_interests, completed >>
    /\ UNCHANGED outsideBatch

\* an interval tick: the scheduler runs digest_generation_job, of which no instance is
\* running since it returns at once; its create_task makes the task or raises
digest_generation_job(created) ==
    /\ sched = "started"
    /\ ticks < MaxTicks
    /\ ticks' = ticks + 1
    /\ IF created THEN create_task ELSE UNCHANGED batch
    /\ UNCHANGED << sched, today, has_interests, completed >>
    /\ UNCHANGED outsideBatch

\* process_digest_generation up to the loop: current_time, digest_date, the due users
BatchStart(t, users, raises) ==
    LET b == [batch[t] EXCEPT !.started_on = today,
                              !.digest_date = compute_digest_date(today)]
    IN
    /\ batch[t].pc = "created"
    /\ raises => users = << >>
    /\ batch' = [batch EXCEPT ![t] =
                    IF raises THEN outer_except(b)
                    ELSE IF users = << >> THEN [b EXCEPT !.pc = "done"]
                    ELSE [b EXCEPT !.users = users, !.i = 1, !.pc = "interests",
                                   !.stats.total = Len(users)]]
    /\ UNCHANGED << sched, ticks, today, has_interests, completed >>
    /\ UNCHANGED outsideBatch

\* interest_service.get_user_interests(user.id) on the batch's session
LookupInterests(t, raises) ==
    LET b == batch[t]
        user == b.users[b.i]
        seen == [op |-> "interests", user |-> user, date |-> 0, force |-> FALSE,
                 found |-> has_interests[user]]
        b1 == [b EXCEPT !.log = Append(@, seen)]
    IN
    /\ b.pc = "interests"
    /\ batch' = [batch EXCEPT ![t] =
                    IF raises THEN outer_except(b)
                    ELSE IF ~has_interests[user]
                    THEN next_user([b1 EXCEPT !.stats.skipped_no_interests = @ + 1])
                    ELSE [b1 EXCEPT !.pc = "exists"]]
    /\ UNCHANGED << sched, ticks, today, has_interests, completed >>
    /\ UNCHANGED outsideBatch

\* check_digest_exists(db, user.id, digest_date) on the batch's session
CheckExists(t, raises) ==
    LET b == batch[t]
        user == b.users[b.i]
        found == completed_exists(completed, user, b.digest_date)
        seen == [op |-> "exists", user |-> user, date |-> b.digest_date, force |-> FALSE,
                 found |-> found]
        b1 == [b EXCEPT !.log = Append(@, seen)]
    IN
    /\ b.pc = "exists"
    /\ batch' = [batch EXCEPT ![t] =
                    IF raises THEN outer_except(b)
                    ELSE IF found
                    THEN next_user([b1 EXCEPT !.stats.skipped_exists = @ + 1])
                    ELSE [b1 EXCEPT !.pc = "generate"]]
    /\ UNCHANGED << sched, ticks, today, has_interests, completed >>
    /\ UNCHANGED outsideBatch

\* generate_user_digest(user.id, user.email, digest_date) and the count of its result
GenerateForUser(t, outcome) ==
    LET b == batch[t]
        user == b.users[b.i]
        res == generate_user_digest(completed, user, b.digest_date, today, outcome)
        b1 == [b EXCEPT !.log = Append(@, res.call)]
    IN
    /\ b.pc = "generate"
    /\ outcome = "existing" <=> res.call.found
    /\ completed' = res.rows
    /\ batch' = [batch EXCEPT ![t] =
                    IF res.success
                    THEN next_user([b1 EXCEPT !.stats.generated = @ + 1])
                    ELSE next_user([b1 EXCEPT !.stats.failed = @ + 1])]
    /\ UNCHANGED << sched, ticks, today, has_interests >>
    /\ UNCHANGED outsideBatch

\* the task of a finished batch is discarded
TaskDone(t) ==
    /\ batch[t].pc = "done"
    /\ batch' = [batch EXCEPT ![t] = NoTask]
    /\ UNCHANGED << sched, ticks, today, has_interests, completed >>
    /\ UNCHANGED outsideBatch

\* the calendar date changes
Midnight ==
    /\ today < LastDay
    /\ today' = today + 1
    /\ UNCHANGED << sched, ticks, has_interests, completed, batch >>
    /\ UNCHANGED outsideBatch

\* InterestService.update_user_interests, committed by the request
update_user_interests(u, some) ==
    /\ has_interests[u] # some
    /\ has_interests' = [has_interests EXCEPT ![u] = some]
    /\ UNCHANGED << sched, ticks, today, completed, batch >>
    /\ UNCHANGED outsideBatch

\* POST /digests/generate of user u for yesterday's news completes
GenerateNow(u) ==
    /\ << u, compute_digest_date(today) >> \notin completed
    /\ completed' = completed \cup {<< u, compute_digest_date(today) >>}
    /\ UNCHANGED << sched, ticks, today, has_interests, batch >>
    /\ UNCHANGED outsideBatch

InitBatch ==
    /\ subscribed = [u \in Users |-> << >>]
    /\ DigestIdle
    /\ WindowIdle
    /\ LimiterIdle
    /\ MiddlewareConf
    /\ RequestsIdle
    /\ BatchIdle
    /\ NewsIdle
    /\ SanitizerIdle
    /\ TicksIdle
    /\ PurgeIdle
    /\ CacheIdle

NextBatch ==
    \/ schedule_digest_jobs
    \/ \E created \in BOOLEAN : digest_generation_job(created)
    \/ \E t \in Tasks, users \in DueLists, raises \in BOOLEAN : BatchStart(t, users, raises)
    \/ \E t \in Tasks, raises \in BOOLEAN : LookupInterests(t, raises)
    \/ \E t \in Tasks, raises \in BOOLEAN : CheckExists(t, raises)
    \/ \E t \in Tasks, outcome \in Outcomes : GenerateForUser(t, outcome)
    \/ \E t \in Tasks : TaskDone(t)
    \/ Midnight
    \/ \E u \in BatchUsers, some \in BOOLEAN : update_user_interests(u, some)
    \/ \E u \in BatchUsers : GenerateNow(u)

SpecBatch == InitBatch /\ [][NextBatch]_vars

\* process_digest_generation has begun and not returned in task t
Running(t) == batch[t].pc \in {"interests", "exists", "generate"}

\* C22: at no time are two executions of process_digest_generation in progress: while one
\* batch runs, neither an interval tick nor the start-up run starts a second one.
C22_OneBatchAtATime == \A t1, t2 \in Tasks : Running(t1) /\ Running(t2) => t1 = t2


\* C23: within one batch tick a failure or exception for one due user, at the interest
\* lookup, the existence check or the digest generation, leaves no remaining due user
\* unprocessed: a batch that has returned got to the last of its due users, and the
\* error did not leave process_digest_generation.
C23_FailureIsolated ==
    \A t \in Tasks :
        batch[t].pc = "done" => batch[t].i = Len(batch[t].users)


\* positions in the log of b of the calls op made for user u
Calls(b, op, u) == { k \in 1..Len(b.log) : b.log[k].op = op /\ b.log[k].user = u }

\* C24: for each due user of a tick: with zero interests no existence check and no
\* orchestrator call is made; else with a COMPLETED digest for (user, digest_date) the
\* orchestrator is not invoked; otherwise it is invoked exactly once; and every
\* invocation passes force = false.
C24_DecisionPerUser ==
    \A t \in Tasks :
        LET b == batch[t] IN
        /\ \A k \in 1..Len(b.log) : ~b.log[k].force
        /\ b.pc = "done" =>
              \A i \in 1..Len(b.users) :
                  LET u == b.users[i]
                      generations == Cardinality(Calls(b, "generate", u))
                  IN
                  IF \E k \in Calls(b, "interests", u) : ~b.log[k].found
                  THEN generations = 0 /\ Calls(b, "exists", u) = {}
                  ELSE IF \E k \in Calls(b, "exists", u) : b.log[k].found
                  THEN generations = 0
                  ELSE generations = 1

\* the part of C24 that concerns the users the loop got to
C24_DecisionWhenReached ==
    \A t \in Tasks :
        LET b == batch[t] IN
        \A i \in 1..Len(b.users) :
            LET u == b.users[i]
                generations == Cardinality(Calls(b, "generate", u))
            IN
            /\ generations <= 1
            /\ (\E k \in Calls(b, "interests", u) : ~b.log[k].found)
                   => generations = 0 /\ Calls(b, "exists", u) = {}
            /\ (\E k \in Calls(b, "exists", u) : b.log[k].found) => generations = 0
            /\ (b.pc = "done" /\ ~b.caught) =>
                   (generations = 1 <=>
                       /\ \E k \in Calls(b, "interests", u) : b.log[k].found
                       /\ \E k \in Calls(b, "exists", u) : ~b.log[k].found)

\* C25: every existence check and every orchestrator invocation of one batch tick uses the
\* digest_date computed when the tick started, whatever the calendar date is by then.
C25_OneDigestDate ==
    \A t \in Tasks :
        LET b == batch[t] IN
        \A k \in 1..Len(b.log) :
            b.log[k].op \in {"exists", "generate"} =>
                /\ b.log[k].date = b.digest_date
                /\ b.log[k].date = compute_digest_date(b.started_on)

\* a batch that generated for one user before midnight and for another after it
C25_Witness ==
    \E t \in Tasks :
        LET b == batch[t] IN
        \E j, k \in 1..Len(b.log) :
            /\ b.log[j].op = "generate" /\ b.log[j].on = b.started_on
            /\ b.log[k].op = "generate" /\ b.log[k].on # b.started_on
            /\ b.log[k].date = b.log[j].date


\* ================================================ contents of stored digests
\* rows of the digests table: committed, or flushed by a session
StoredDigests == store \cup UNION { adds[t] : t \in Triggers }

\* texts a COMPLETED digest can carry: a Generator output, its no-news placeholder, or
\* the no-interests placeholder
CompleteTexts ==
    GenOutputs \cup {NoNewsContent}
        \cup { EmptyDigestContent(d, NoInterestsMessage) : d \in Dates }

ContentByStatus ==
    \A r \in StoredDigests :
        /\ r.status = PENDING => r.content = ""
        /\ r.status = FAILED => r.content = FailedContent /\ r.error_message # ""
        /\ r.status = COMPLETED => r.content \in CompleteTexts /\ r.error_message = ""

\* the digest the call of t inserted is FAILED
AttemptFailed(t) == \E r \in View(t) : r.id = cur[t] /\ r.status = FAILED

FailedRegeneration(t) ==
    /\ t \in ApiTriggers
    /\ GenerateCall(t) /\ arg[t].force
    /\ existing[t] # NoDigest /\ existing[t].status = COMPLETED
    /\ existing[t].id \in dels[t]
    /\ pc[t] = "raised" /\ exc[t] = OpenAIError

\* C37: when the regenerate endpoint's generate_digest(force=true) found a COMPLETED
\* digest and the Generator failed, the table still holds that digest, same id and
\* content, when the request has ended, in place of the FAILED one: the request ends
\* with the rollback of its session, which leaves the committed table as it is.
C37_FailedRegenerationKeepsDigest ==
    [][\A t \in ApiTriggers :
          FailedRegeneration(t) =>
              /\ existing[t] \in store
              /\ ~CallerCommit(t)
              /\ CallerRollback(t) =>
                    /\ store' = store
                    /\ existing[t] \in store'
                    /\ \A r \in store' : Key(r) = Key(existing[t]) => r = existing[t]
                    /\ adds'[t] = {} /\ dels'[t] = {}]_vars

\* the Generator has failed in a forced regeneration: the session holds the delete of the
\* original and the FAILED record, the table holds the original
C37_Witness ==
    \E t \in ApiTriggers :
        /\ FailedRegeneration(t)
        /\ existing[t] \in store
        /\ existing[t].content \in GenOutputs
        /\ \E r \in adds[t] : r.id = cur[t] /\ r.status = FAILED
        /\ \A r \in View(t) : r.id # existing[t].id
NoHeadlines(t) ==
    GenerateCall(t) /\ cur[t] # 0 /\ pc[t] \in {"generate", "ret"} /\ acc[t] = << >>

\* C33: when the aggregated headline list is empty, generate_digest sends no request to
\* the Generator's upstream, the digest gets the placeholder saying that no news
\* articles were available and ends COMPLETED with no headlines; a later non-forced
\* call for that (user, date) that sees it returns it unchanged, with no Fetcher call,
\* no Generator call and no upstream request.
C33_NoHeadlinesPlaceholder ==
    \A t \in Triggers :
        /\ NoHeadlines(t) =>
              /\ nPost[t] = 0
              /\ pc[t] = "ret" =>
                    /\ ret[t].status = COMPLETED
                    /\ ret[t].content = NoNewsContent
                    /\ ret[t].headlines_used = << >>
                    /\ ret[t].error_message = ""
                    /\ ret[t] \in View(t)
        /\ (pc[t] = "raised" /\ exc[t] = OpenAIError) => acc[t] # << >>
        /\ (GenerateCall(t) /\ ~arg[t].force /\ prior[t] # NoDigest
              /\ prior[t].content = NoNewsContent) =>
              /\ pc[t] = "ret"
              /\ ret[t] = prior[t]
              /\ nFetch[t] = 0 /\ nGen[t] = 0 /\ nPost[t] = 0

\* a non-forced call returned the placeholder digest that an earlier call, whose only
\* category failed, had completed
C33_Witness ==
    \E t \in Triggers :
        /\ GenerateCall(t) /\ ~arg[t].force /\ pc[t] = "ret"
        /\ prior[t] # NoDigest
        /\ prior[t].content = NoNewsContent
        /\ prior[t].interests_included # << >>
        /\ ret[t] = prior[t]
        /\ ret[t] \in store


\* ================================ the generation branch and the news service
\* digest dates of the modelled calls
NewsDates == {"2025-11-30", "2025-12-01"}

\* digest_date.strftime("%B %d, %Y")
strftime(d) == IF d = "2025-11-30" THEN "November 30, 2025" ELSE "December 01, 2025"

NoEvent == [ev |-> "", i |-> 0, outcome |-> "", headlines |-> << >>, date |-> "",
            interests |-> << >>]

\* the article dicts call c makes of a category's upstream articles: the normalized list
\* get_headlines_for_category builds, caches and returns (the list itself, not a copy)
Articles(category, c) ==
    [k \in 1..Len(UpstreamUrls(category)) |-> [category |-> category, k |-> k, by |-> c]]

\* article["url"]
UrlOf(a) == UpstreamUrls(a.category)[a.k]

\* the headline an article dict currently is
Headline(a) ==
    [url |-> UrlOf(a), category |-> a.category,
     interest_slug |-> slug_of[a.by][a.category][a.k]]

RECURSIVE add_articles(_, _, _)
\* for article in articles: an unseen url is tagged with slug (in the dict itself),
\* appended and remembered
add_articles(articles, slug, st) ==
    IF articles = << >>
    THEN st
    ELSE LET a == Head(articles) IN
         add_articles(Tail(articles), slug,
             IF UrlOf(a) \in st.seen
             THEN st
             ELSE [st EXCEPT !.all = Append(@, a),
                             !.seen = @ \cup {UrlOf(a)},
                             !.slug_of[a.by][a.category][a.k] = slug])

all_fetched_early(interests, i) == i > 1

\* "for interest in interest_categories" is exhausted
all_fetched(interests, i) == i > Len(interests)

\* the frame of call c as the steps below pass it on
Frame(c) ==
    [pc |-> npc[c], i |-> nidx[c], all |-> nall[c], seen |-> nseen[c],
     skipped |-> nskipped[c], log |-> nlog[c], cache |-> cache, slug_of |-> slug_of]

RECURSIVE run(_, _, _)
\* call c runs from interest st.i on until it next awaits the network: interests without
\* category are skipped and cached categories are aggregated without suspending; an
\* uncached category sends the Fetcher's request; after the last interest
\* get_previous_day_headlines returns and the Generator is called, which returns its
\* placeholder at once when there are no headlines and awaits its upstream otherwise
run(c, interests, st) ==
    IF all_fetched(interests, st.i)
    THEN [st EXCEPT !.pc = IF posts(st.all) = 0 THEN "completed" ELSE "post",
                    !.log = Append(@, [NoEvent EXCEPT !.ev = "generate",
                                                      !.headlines = st.all,
                                                      !.date = strftime(st.log[1].date),
                                                      !.interests = Slugs(interests)])]
    ELSE LET interest == interests[st.i]
             category == interest.newsapi_category
         IN
         IF category = ""
         THEN run(c, interests, [st EXCEPT !.i = @ + 1])
         ELSE IF st.cache[category] # ""
         THEN run(c, interests,
                  [add_articles(Articles(category, st.cache[category]), interest.slug, st)
                      EXCEPT !.i = @ + 1,
                             !.log = Append(@, [NoEvent EXCEPT !.ev = "fetch", !.i = st.i,
                                                               !.outcome = "cached"])])
         ELSE [st EXCEPT !.pc = "http"]

\* the frame st becomes the state of call c
Resume(c, st) ==
    /\ npc' = [npc EXCEPT ![c] = st.pc]
    /\ nidx' = [nidx EXCEPT ![c] = st.i]
    /\ nall' = [nall EXCEPT ![c] = st.all]
    /\ nseen' = [nseen EXCEPT ![c] = st.seen]
    /\ nskipped' = [nskipped EXCEPT ![c] = st.skipped]
    /\ nlog' = [nlog EXCEPT ![c] = st.log]
    /\ cache' = st.cache
    /\ slug_of' = st.slug_of

\* generate_digest reaches its generation branch: the PENDING digest is added and the
\* call awaits the flush
InsertPendingDigest(c, interests, d) ==
    /\ npc[c] = "idle"
    /\ npc' = [npc EXCEPT ![c] = "flush"]
    /\ nints' = [nints EXCEPT ![c] = interests]
    /\ nidx' = [nidx EXCEPT ![c] = 1]
    /\ nlog' = [nlog EXCEPT ![c] = << [NoEvent EXCEPT !.ev = "insert", !.date = d] >>]
    /\ UNCHANGED << nall, nseen, nskipped, cache, slug_of >>
    /\ UNCHANGED outsideNews

\* the flush is done: get_previous_day_headlines is called
Flushed(c) ==
    /\ npc[c] = "flush"
    /\ Resume(c, run(c, nints[c], Frame(c)))
    /\ UNCHANGED nints
    /\ UNCHANGED outsideNews

\* the upstream answers the request for the category of interest nidx[c]: the articles
\* are normalized, cached, tagged and deduplicated; or NewsAPIError is raised and caught;
\* or another exception leaves the Fetcher and generate_digest marks the digest FAILED
FetcherResponse(c, outcome) ==
    LET interest == nints[c][nidx[c]]
        category == interest.newsapi_category
        st == [Frame(c) EXCEPT !.log = Append(@, [NoEvent EXCEPT !.ev = "fetch",
                                                                 !.i = nidx[c],
                                                                 !.outcome = outcome])]
        fresh == [[st EXCEPT !.cache[category] = c]
                     EXCEPT !.slug_of[c][category] =
                                [k \in 1..Len(UpstreamUrls(category)) |-> ""]]
    IN
    /\ npc[c] = "http"
    /\ CASE outcome = "ok" ->
                Resume(c, run(c, nints[c],
                              [add_articles(Articles(category, c), interest.slug, fresh)
                                  EXCEPT !.i = @ + 1]))
         [] outcome = "error" ->
                Resume(c, run(c, nints[c],
                              [st EXCEPT !.i = @ + 1, !.skipped = @ \cup {category}]))
         [] outcome = "crash" ->
                Resume(c, [st EXCEPT !.pc = "failed"])
    /\ UNCHANGED nints
    /\ UNCHANGED outsideNews

\* openai_service.generate_digest returns or raises: headlines_used and COMPLETED, or
\* FAILED, and the call awaits the flush
GeneratorResponse(c, ok) ==
    /\ npc[c] = "post"
    /\ npc' = [npc EXCEPT ![c] = IF ok THEN "completed" ELSE "failed"]
    /\ UNCHANGED << nints, nidx, nall, nseen, nskipped, nlog, cache, slug_of >>
    /\ UNCHANGED outsideNews

\* generate_digest is left
LeaveGeneration(c) ==
    /\ npc[c] \in {"completed", "failed"}
    /\ npc' = [npc EXCEPT ![c] = "idle"]
    /\ nints' = [nints EXCEPT ![c] = << >>]
    /\ nidx' = [nidx EXCEPT ![c] = 0]
    /\ nall' = [nall EXCEPT ![c] = << >>]
    /\ nseen' = [nseen EXCEPT ![c] = {}]
    /\ nskipped' = [nskipped EXCEPT ![c] = {}]
    /\ nlog' = [nlog EXCEPT ![c] = << >>]
    /\ UNCHANGED << cache, slug_of >>
    /\ UNCHANGED outsideNews

InitNews ==
    /\ subscribed = [u \in Users |-> << >>]
    /\ DigestIdle
    /\ WindowIdle
    /\ LimiterIdle
    /\ MiddlewareConf
    /\ RequestsIdle
    /\ BatchIdle
    /\ NewsIdle
    /\ SanitizerIdle
    /\ TicksIdle
    /\ PurgeIdle
    /\ CacheIdle

NextNews ==
    \/ \E c \in NewsCalls, interests \in NewsInterests, d \in NewsDates :
           InsertPendingDigest(c, interests, d)
    \/ \E c \in NewsCalls : Flushed(c)
    \/ \E c \in NewsCalls, outcome \in {"ok", "error", "crash"} : FetcherResponse(c, outcome)
    \/ \E c \in NewsCalls, ok \in BOOLEAN : GeneratorResponse(c, ok)
    \/ \E c \in NewsCalls : LeaveGeneration(c)

SpecNews == InitNews /\ [][NextNews]_vars


\* positions of the events ev in the log of call c
Events(c, ev) == { j \in 1..Len(nlog[c]) : nlog[c][j].ev = ev }

\* interests of call c that have an external category
WithCategory(c) == { i \in 1..Len(nints[c]) : nints[c][i].newsapi_category # "" }

\* the order of events of call c, whatever its end: the PENDING insert first; at most one
\* Fetcher call per interest with a category and none for the others; at most one
\* Generator call, after a Fetcher call for every interest with a category, with all
\* aggregated headlines, the formatted date and the slug list
EventOrder(c) ==
    LET L == nlog[c] IN
    /\ L # << >> => Events(c, "insert") = {1}
    /\ \A j \in Events(c, "fetch") :
          /\ L[j].i \in WithCategory(c)
          /\ \A k \in Events(c, "fetch") : L[k].i = L[j].i => k = j
    /\ \A g \in Events(c, "generate") :
          /\ g = Len(L)
          /\ Events(c, "generate") = {g}
          /\ \A i \in WithCategory(c) : \E j \in Events(c, "fetch") : j < g /\ L[j].i = i
          /\ L[g].headlines = nall[c]
          /\ L[g].date = strftime(L[1].date)
          /\ L[g].interests = Slugs(nints[c])

FirstSlug(c, url) ==
    LET got == { i \in WithCategory(c) :
                   /\ \E j \in Events(c, "fetch") :
                          nlog[c][j].i = i /\ nlog[c][j].outcome \in {"cached", "ok"}
                   /\ \E k \in 1..Len(UpstreamUrls(nints[c][i].newsapi_category)) :
                          UpstreamUrls(nints[c][i].newsapi_category)[k] = url }
    IN nints[c][CHOOSE i \in got : \A i2 \in got : i <= i2].slug

\* C28: the headline list aggregated for a digest has no two headlines with the same URL,
\* and each headline carries the slug of the first of the user's interests under which
\* its URL appeared.
C28_FirstOccurrenceWins ==
    \A c \in NewsCalls :
        npc[c] \in {"post", "completed"} =>
            /\ \A j, k \in 1..Len(nall[c]) : UrlOf(nall[c][j]) = UrlOf(nall[c][k]) => j = k
            /\ \A j \in 1..Len(nall[c]) :
                   Headline(nall[c][j]).interest_slug = FirstSlug(c, UrlOf(nall[c][j]))

\* the part of C28 that concerns the URLs alone
C28_NoDuplicateUrl ==
    \A c \in NewsCalls :
        \A j, k \in 1..Len(nall[c]) : UrlOf(nall[c][j]) = UrlOf(nall[c][k]) => j = k

\* positions of the Fetcher calls of call c that ended in one of outcomes
Fetched(c, outcomes) == { j \in Events(c, "fetch") : nlog[c][j].outcome \in outcomes }

\* get_headlines_for_interests of call c raised: the attempt failed before any Generator
\* call
HeadlinesRaised(c) == npc[c] = "failed" /\ Events(c, "generate") = {}

\* get_headlines_for_interests of call c returned
HeadlinesReturned(c) == npc[c] \in {"post", "completed"} \/ Events(c, "generate") # {}

\* what the returned list of call c has to hold: a Fetcher call was made for every
\* interest with a category, the URLs are those of the categories whose call succeeded,
\* and none when every call failed
AggregatesTheRest(c) ==
    /\ \A i \in WithCategory(c) : \E j \in Events(c, "fetch") : nlog[c][j].i = i
    /\ { UrlOf(nall[c][j]) : j \in 1..Len(nall[c]) }
          = UNION { { UpstreamUrls(nints[c][nlog[c][j].i].newsapi_category)[k] :
                        k \in 1..Len(UpstreamUrls(nints[c][nlog[c][j].i].newsapi_category)) } :
                    j \in Fetched(c, {"ok", "cached"}) }
    /\ Fetched(c, {"ok", "cached"}) = {} => nall[c] = << >>

\* C32: get_headlines_for_interests never raises when the Fetcher fails for a category:
\* the failing category contributes no headlines, the remaining categories are still
\* fetched and aggregated, and when every category fails the result is the empty list.
C32_FetcherFailureSkipped ==
    \A c \in NewsCalls :
        /\ Fetched(c, {"error", "crash"}) # {} => ~HeadlinesRaised(c)
        /\ HeadlinesReturned(c) => AggregatesTheRest(c)

\* the part of C32 that concerns NewsAPIError: it never leaves
\* get_headlines_for_interests, and the list returned holds the rest
C32_NewsAPIErrorSkipped ==
    \A c \in NewsCalls :
        /\ HeadlinesRaised(c) => Fetched(c, {"crash"}) # {}
        /\ HeadlinesReturned(c) => AggregatesTheRest(c)

\* the headline records the list of call c holds, as they read now
HeadlinesOf(c) == [j \in 1..Len(nall[c]) |-> Headline(nall[c][j])]

\* a step that is not one of call c, taken while c is in its generation branch
StepOfAnother(c) ==
    /\ npc[c] \in {"http", "post", "completed"}
    /\ npc'[c] = npc[c]
    /\ nidx'[c] = nidx[c]

\* C40: the headline records aggregated for one generate_digest call are not modified
\* by any other concurrent or later call; every interest_slug tag in a user's list
\* is a slug of that user's own interests, also when another user's request for the
\* same category is served from the shared cache while the call is in progress.
C40_HeadlinesNotModifiedByOthers ==
    [][\A c \in NewsCalls :
          StepOfAnother(c) =>
              /\ HeadlinesOf(c)' = HeadlinesOf(c)
              /\ \A j \in 1..Len(HeadlinesOf(c)') :
                     \E i \in 1..Len(nints[c]) :
                         HeadlinesOf(c)'[j].interest_slug = nints[c][i].slug]_vars

\* the part of C40 that holds: no other call changes which articles, by URL and
\* category, the list of a call holds, nor their order
C40_ArticlesNotModifiedByOthers ==
    [][\A c \in NewsCalls : StepOfAnother(c) => nall'[c] = nall[c]]_vars


\* ==================================================== the markdown sanitizer
\* A text is a sequence of characters; a character is written by its name: "SP" space,
\* "TAB", "LF", "CR", "BS" backspace (0x08), "DEL" (0x7f), "ZW" zero-width space (U+200B),
\* "ACUTE" combining acute accent (U+0301), "A_ACUTE" the letter a with acute (U+00E1).

\* longest raw text of layout characters
MaxLen == 6

\* longest raw text of the other characters
MaxShort == 3

\* characters that make lines, emphasis and headings
LayoutChars == {"a", "SP", "LF", "*", "#"}

\* all modelled characters
AllChars ==
    {"a", "SP", "TAB", "LF", "CR", "BS", "DEL", "ZW", "ACUTE", "*", "#", "-", "1", "."}

\* the raw texts handed to sanitize_markdown
Texts ==
    UNION { [1..n -> LayoutChars] : n \in 0..MaxLen }
        \cup UNION { [1..n -> AllChars] : n \in 0..MaxShort }

\* CONTROL_CHAR_PATTERN, among the modelled characters
CONTROL_CHARS == {"BS", "DEL"}

\* ZERO_WIDTH_PATTERN, among the modelled characters
ZERO_WIDTH == {"ZW"}

\* [ \t]
Blank == {"SP", "TAB"}

\* \s of re and the characters str.strip removes, among the modelled characters
Whitespace == {"SP", "TAB", "LF", "CR"}

\* \d
Digits == {"1"}

\* . of re: every character but the newline
NotNewline == (AllChars \cup {"A_ACUTE"}) \ {"LF"}

Take(s, n) == SubSeq(s, 1, n)

Drop(s, n) == SubSeq(s, n + 1, Len(s))

Repeat(ch, n) == [i \in 1..n |-> ch]

\* pattern.sub('', s) for a character class
Without(s, chars) == SelectSeq(s, LAMBDA ch : ch \notin chars)

RECURSIVE RunLength(_, _)
\* length of the longest prefix of s made of chars
RunLength(s, chars) ==
    IF s = << >> \/ Head(s) \notin chars THEN 0 ELSE 1 + RunLength(Tail(s), chars)

RECURSIVE nfc(_)
\* unicodedata.normalize('NFC', s): a base letter and its combining accent compose
nfc(s) ==
    IF s = << >> THEN << >>
    ELSE IF Len(s) >= 2 /\ s[1] = "a" /\ s[2] = "ACUTE"
    THEN << "A_ACUTE" >> \o nfc(Drop(s, 2))
    ELSE << Head(s) >> \o nfc(Tail(s))

RECURSIVE normalize_line_endings(_)
\* replace('\r\n', '\n') and then replace('\r', '\n')
normalize_line_endings(s) ==
    IF s = << >> THEN << >>
    ELSE IF Len(s) >= 2 /\ s[1] = "CR" /\ s[2] = "LF"
    THEN << "LF" >> \o normalize_line_endings(Drop(s, 2))
    ELSE IF s[1] = "CR"
    THEN << "LF" >> \o normalize_line_endings(Tail(s))
    ELSE << Head(s) >> \o normalize_line_endings(Tail(s))

RECURSIVE squeeze(_, _, _, _)
\* re.sub of ch{min,} by to times ch
squeeze(s, ch, min, to) ==
    IF s = << >> THEN << >>
    ELSE IF Head(s) = ch
    THEN LET n == RunLength(s, {ch}) IN
         Repeat(ch, IF n >= min THEN to ELSE n) \o squeeze(Drop(s, n), ch, min, to)
    ELSE << Head(s) >> \o squeeze(Tail(s), ch, min, to)

RECURSIVE split(_)
\* s.split('\n')
split(s) ==
    LET n == RunLength(s, NotNewline) IN
    IF n = Len(s) THEN << s >> ELSE << Take(s, n) >> \o split(Drop(s, n + 1))

RECURSIVE join(_)
\* '\n'.join(lines)
join(lines) ==
    IF Len(lines) = 1 THEN lines[1] ELSE lines[1] \o << "LF" >> \o join(Tail(lines))

RECURSIVE rstrip(_, _)
rstrip(s, chars) ==
    IF s # << >> /\ s[Len(s)] \in chars THEN rstrip(Take(s, Len(s) - 1), chars) ELSE s

lstrip(s, chars) == Drop(s, RunLength(s, chars))

EndsWith(s, suffix) ==
    Len(s) >= Len(suffix) /\ SubSeq(s, Len(s) - Len(suffix) + 1, Len(s)) = suffix

RECURSIVE count_double(_)
\* len(re.findall(r'\*\*', line))
count_double(line) ==
    IF Len(line) < 2 THEN 0
    ELSE IF line[1] = "*" /\ line[2] = "*" THEN 1 + count_double(Drop(line, 2))
    ELSE count_double(Tail(line))

\* _fix_unbalanced_markers, one line
fix_line(line) ==
    LET r == rstrip(line, Whitespace) IN
    IF /\ count_double(line) % 2 # 0
       /\ EndsWith(r, << "*", "*" >>)
       /\ ~EndsWith(r, << "*", "*", "*" >>)
    THEN rstrip(Take(r, Len(r) - 2), Whitespace)
    ELSE line

\* _fix_unbalanced_markers
fix_unbalanced_markers(s) ==
    LET lines == split(s) IN join([i \in 1..Len(lines) |-> fix_line(lines[i])])

\* TRAILING_WHITESPACE_PATTERN.sub('', s): [ \t]+ before a line end is removed
strip_trailing(s) ==
    LET lines == split(s) IN join([i \in 1..Len(lines) |-> rstrip(lines[i], Blank)])

\* step 10, one line: multiple spaces become one, except in the prefix of a list item
normalize_spaces(line) ==
    LET w == RunLength(line, Whitespace)
        d == RunLength(Drop(line, w), Digits)
        bullet == Len(line) > w /\ line[w + 1] \in {"-", "*"}
        numbered == d >= 1 /\ Len(line) > w + d /\ line[w + d + 1] = "."
        marker == IF bullet THEN w + 1 ELSE w + d + 1
        prefix == marker + RunLength(Drop(line, marker), Whitespace)
    IN
    IF bullet \/ numbered
    THEN Take(line, prefix) \o squeeze(Drop(line, prefix), "SP", 2, 1)
    ELSE squeeze(line, "SP", 2, 1)

\* step 10
normalize_multiple_spaces(s) ==
    LET lines == split(s) IN join([i \in 1..Len(lines) |-> normalize_spaces(lines[i])])

\* position of the first LF of s at or after p, or 0
NextLF(s, p) ==
    LET n == RunLength(Drop(s, p - 1), NotNewline) IN
    IF p + n > Len(s) THEN 0 ELSE p + n

\* where ^(#{1,6}\s+.+)$\n(?!\n) matches at line start p: the position of the LF it
\* consumes, or 0; \s+ is tried longest first
heading_match(s, p) ==
    LET h == RunLength(Drop(s, p - 1), {"#"})
        w == RunLength(Drop(s, p - 1 + h), Whitespace)
        EndFor(j) == NextLF(s, p + h + j)
        good == { j \in 1..w :
                    /\ p + h + j <= Len(s)
                    /\ s[p + h + j] # "LF"
                    /\ EndFor(j) # 0
                    /\ (EndFor(j) = Len(s) \/ s[EndFor(j) + 1] # "LF") }
    IN
    IF h \in 1..6 /\ good # {}
    THEN EndFor(CHOOSE j \in good : \A k \in good : k <= j)
    ELSE 0

RECURSIVE heading_spacing(_, _)
\* step 11 from line start p on: re.sub(..., r'\1\n\n', s, flags=re.MULTILINE)
heading_spacing(s, p) ==
    IF p > Len(s) THEN << >>
    ELSE LET m == heading_match(s, p)
             q == NextLF(s, p)
         IN
         IF m # 0 THEN SubSeq(s, p, m) \o << "LF" >> \o heading_spacing(s, m + 1)
         ELSE IF q = 0 THEN SubSeq(s, p, Len(s))
         ELSE SubSeq(s, p, q) \o heading_spacing(s, q + 1)

\* step 12, one line: ^(\s*)\*<space> becomes \1-<space>
bullet_marker(line) ==
    LET w == RunLength(line, Whitespace) IN
    IF Len(line) >= w + 2 /\ line[w + 1] = "*" /\ line[w + 2] = "SP"
    THEN [line EXCEPT ![w + 1] = "-"]
    ELSE line

\* step 12
bullet_markers(s) ==
    LET lines == split(s) IN join([i \in 1..Len(lines) |-> bullet_marker(lines[i])])

\* str.strip()
strip(s) == lstrip(rstrip(s, Whitespace), Whitespace)

\* sanitize_markdown, steps 1 to 13
sanitize_markdown(s) ==
    IF s = << >> THEN << >>
    ELSE LET s1 == nfc(s)
             s2 == Without(s1, {"BS"})
             s3 == Without(s2, ZERO_WIDTH)
             s4 == normalize_line_endings(s3)
             s5 == Without(s4, CONTROL_CHARS)
             s6 == squeeze(s5, "*", 3, 2)
             s7 == fix_unbalanced_markers(s6)
             s8 == squeeze(s7, "LF", 3, 2)
             s9 == strip_trailing(s8)
             s10 == normalize_multiple_spaces(s9)
             s11 == heading_spacing(s10, 1)
             s12 == bullet_markers(s11)
         IN strip(s12)

\* a caller hands raw to sanitize_markdown
Sanitize ==
    /\ spc = "raw"
    /\ clean' = sanitize_markdown(raw)
    /\ spc' = "clean"
    /\ UNCHANGED << raw, again >>
    /\ UNCHANGED outsideSanitizer

\* the sanitized text is sanitized once more
SanitizeAgain ==
    /\ spc = "clean"
    /\ again' = sanitize_markdown(clean)
    /\ spc' = "again"
    /\ UNCHANGED << raw, clean >>
    /\ UNCHANGED outsideSanitizer

InitSanitizer ==
    /\ subscribed = [u \in Users |-> << >>]
    /\ DigestIdle
    /\ WindowIdle
    /\ LimiterIdle
    /\ MiddlewareConf
    /\ RequestsIdle
    /\ BatchIdle
    /\ NewsIdle
    /\ CacheIdle
    /\ PurgeIdle
    /\ TicksIdle
    /\ spc = "raw"
    /\ raw \in Texts
    /\ clean = << >>
    /\ again = << >>

NextSanitizer ==
    \/ Sanitize
    \/ SanitizeAgain

SpecSanitizer == InitSanitizer /\ [][NextSanitizer]_vars

\* C29: sanitize_markdown is idempotent: sanitizing a sanitized text changes nothing.
C29_Idempotent == spc = "again" => again = clean

\* s holds n or more ch in a row
HasRun(s, ch, n) == \E i \in 1..Len(s) : RunLength(Drop(s, i - 1), {ch}) >= n

\* C30: the output of sanitize_markdown holds no control character, no zero-width
\* character, no carriage return, no three asterisks in a row and no three newlines in
\* a row.
C30_CleanOutput ==
    spc \in {"clean", "again"} =>
        /\ \A i \in 1..Len(clean) : clean[i] \notin CONTROL_CHARS \cup ZERO_WIDTH \cup {"CR"}
        /\ ~HasRun(clean, "*", 3)
        /\ ~HasRun(clean, "LF", 3)

\* the part of C30 that holds: characters and asterisks
C30_NoStrayCharacters ==
    spc \in {"clean", "again"} =>
        /\ \A i \in 1..Len(clean) : clean[i] \notin CONTROL_CHARS \cup ZERO_WIDTH \cup {"CR"}
        /\ ~HasRun(clean, "*", 3)


\* ========================================================= the headline cache
\* a cache entry that is still valid at the very end of its lifetime
is_cache_valid_inclusive(cache_entry, now) ==
    cache_entry # NoEntry /\ now - cache_entry.cached_at <= CACHE_TTL_SECONDS

\* _is_cache_valid: age = (now - cached_at).total_seconds(); age < CACHE_TTL_SECONDS
is_cache_valid(cache_entry, now) ==
    cache_entry # NoEntry /\ now - cache_entry.cached_at < CACHE_TTL_SECONDS

RECURSIVE normalize(_, _)
\* the normalized list: articles without title are left out, the category is added
normalize(articles, newsapi_category) ==
    IF articles = << >>
    THEN << >>
    ELSE LET a == Head(articles)
             rest == normalize(Tail(articles), newsapi_category)
         IN IF a.title = ""
            THEN rest
            ELSE << [title |-> a.title, url |-> a.url, category |-> newsapi_category] >>
                     \o rest

\* get_headlines_for_category up to its await: a valid entry is returned when use_cache
\* is set, otherwise the request goes to the upstream
GetHeadlinesForCategory(c, newsapi_category, use_cache) ==
    LET entry == hcache[newsapi_category]
        call == [NoCacheCall EXCEPT !.category = newsapi_category,
                                    !.use_cache = use_cache]
    IN
    /\ hcall[c].pc = "idle"
    /\ hcall' = [hcall EXCEPT ![c] =
                    IF use_cache /\ entry # NoEntry /\ is_cache_valid(entry, utcnow)
                    THEN [call EXCEPT !.pc = "returned", !.result = entry.articles]
                    ELSE [call EXCEPT !.pc = "http", !.upstream = 1]]
    /\ UNCHANGED << utcnow, hcache >>
    /\ UNCHANGED outsideCache

\* the upstream answers with articles: they are normalized, cached with the time of
\* the answer and returned
UpstreamAnswers(c, articles) ==
    LET normalized == normalize(articles, hcall[c].category) IN
    /\ hcall[c].pc = "http"
    /\ hcache' = [hcache EXCEPT ![hcall[c].category] =
                      [articles |-> normalized, cached_at |-> utcnow]]
    /\ hcall' = [hcall EXCEPT ![c].pc = "returned", ![c].result = normalized]
    /\ UNCHANGED utcnow
    /\ UNCHANGED outsideCache

\* _fetch_top_headlines raises: the exception leaves get_headlines_for_category
UpstreamFails(c) ==
    /\ hcall[c].pc = "http"
    /\ hcall' = [hcall EXCEPT ![c].pc = "raised"]
    /\ UNCHANGED << utcnow, hcache >>
    /\ UNCHANGED outsideCache

\* the caller has its result
CacheCallOver(c) ==
    /\ hcall[c].pc \in {"returned", "raised"}
    /\ hcall' = [hcall EXCEPT ![c] = NoCacheCall]
    /\ UNCHANGED << utcnow, hcache >>
    /\ UNCHANGED outsideCache

\* time passes
TimePasses(now) ==
    /\ now > utcnow
    /\ utcnow' = now
    /\ UNCHANGED << hcache, hcall >>
    /\ UNCHANGED outsideCache

InitCache ==
    /\ subscribed = [u \in Users |-> << >>]
    /\ DigestIdle
    /\ WindowIdle
    /\ LimiterIdle
    /\ MiddlewareConf
    /\ RequestsIdle
    /\ BatchIdle
    /\ NewsIdle
    /\ SanitizerIdle
    /\ TicksIdle
    /\ PurgeIdle
    /\ CacheIdle

NextCache ==
    \/ \E c \in CacheCallers, category \in NewsCategories, use_cache \in BOOLEAN :
           GetHeadlinesForCategory(c, category, use_cache)
    \/ \E c \in CacheCallers, articles \in UpstreamPayloads : UpstreamAnswers(c, articles)
    \/ \E c \in CacheCallers : UpstreamFails(c)
    \/ \E c \in CacheCallers : CacheCallOver(c)
    \/ \E now \in CacheReadings : TimePasses(now)

SpecCache == InitCache /\ [][NextCache]_vars

\* C34: get_headlines_for_category returns the cached list with no upstream call if and
\* only if use_cache is set and the category has an entry younger than 3600 s;
\* otherwise it makes exactly one upstream call, whose success replaces the entry of
\* the category by the new list with the time of the answer, and whose failure leaves
\* the cache as it is.
C34_HeadlineCache ==
    [][\A c \in CacheCallers :
          /\ \A category \in NewsCategories, use_cache \in BOOLEAN :
                GetHeadlinesForCategory(c, category, use_cache) =>
                    LET entry == hcache[category]
                        fresh == entry # NoEntry /\ utcnow - entry.cached_at < 3600
                    IN /\ hcache' = hcache
                       /\ IF use_cache /\ fresh
                          THEN /\ hcall'[c].pc = "returned"
                               /\ hcall'[c].upstream = 0
                               /\ hcall'[c].result = entry.articles
                          ELSE /\ hcall'[c].pc = "http"
                               /\ hcall'[c].upstream = 1
          /\ \A articles \in UpstreamPayloads :
                UpstreamAnswers(c, articles) =>
                    /\ hcall'[c].upstream = 1
                    /\ hcache'[hcall[c].category] =
                          [articles |-> hcall'[c].result, cached_at |-> utcnow]
                    /\ \A other \in NewsCategories \ {hcall[c].category} :
                          hcache'[other] = hcache[other]
          /\ UpstreamFails(c) => (hcache' = hcache /\ hcall'[c].upstream = 1)
          /\ CacheCallOver(c) => hcache' = hcache]_vars

\* a caller was served an entry of age 3599 s without upstream call, while another
\* caller's request for the same category, made with use_cache unset, is in flight
C34_Witness ==
    \E c, d \in CacheCallers :
        /\ hcall[c].pc = "returned"
        /\ hcall[c].upstream = 0
        /\ hcall[c].use_cache
        /\ utcnow - hcache[hcall[c].category].cached_at = 3599
        /\ hcall[c].result = hcache[hcall[c].category].articles
        /\ hcall[c].result # << >>
        /\ hcall[d].pc = "http"
        /\ hcall[d].category = hcall[c].category
        /\ ~hcall[d].use_cache

====
